---- MODULE Spec2Model ----
(***************************************************************************)
(* Model of the history pipeline of history_extractor_bot                  *)
(* (src/bot_logic.py): the day window, the Telethon history reader, the    *)
(* popularity filter, the concurrent photo download and the zip archive.   *)
(* Instants are minutes since local midnight of day 0 in UTC; calendar     *)
(* days are integers.                                                      *)
(***************************************************************************)
EXTENDS Integers, Sequences, FiniteSets, TLC

\* ------------------------------------------------------------------ bounds
MaxDay == 3            \* calendar days 1..MaxDay can be asked for
MaxStream == 2         \* messages the transport yields to one read
MaxFloodSeconds == 2   \* largest cool-down a FloodWaitError carries
\* entries of one message's reaction list, and the largest count of an entry
MaxEntries == 2
MaxCount == 2

\* --------------------------------------------------------------- time zones
\* datetime.timedelta(days=1), in minutes
OneDay == 1440

Days == 1..MaxDay

\* Names the configuration can carry; the last one is not an IANA name.
ZoneNames == {"UTC", "Asia/Kolkata", "Europe/Berlin", "America/New_York", "Mars/Olympus"}

\* pytz.timezone(tz_name): the zone's rule, or UnknownTimeZoneError.
\* A rule is one offset change at UTC instant `trans`.  Berlin goes to
\* summer time (+60 -> +120) at 01:00 UTC of day 2, New York leaves summer
\* time (-240 -> -300) at 06:00 UTC of day 2.
KnownZone(tz_name) == tz_name \in {"UTC", "Asia/Kolkata", "Europe/Berlin", "America/New_York"}

ZoneRule(tz_name) ==
    CASE tz_name = "Asia/Kolkata"     -> [trans |-> 0, before |-> 330, after |-> 330]
      [] tz_name = "Europe/Berlin"    -> [trans |-> 2 * OneDay + 60, before |-> 60, after |-> 120]
      [] tz_name = "America/New_York" -> [trans |-> 2 * OneDay + 360, before |-> 0 - 240, after |-> 0 - 300]
      [] OTHER                        -> [trans |-> 0, before |-> 0, after |-> 0]

\* try: pytz.timezone(tz_name) except UnknownTimeZoneError: pytz.utc
TargetTz(tz_name) == IF KnownZone(tz_name) THEN ZoneRule(tz_name) ELSE ZoneRule("UTC")

\* The UTC offset the zone has at a UTC instant.
UtcOffsetAt(tz, utc) == IF utc < tz.trans THEN tz.before ELSE tz.after

\* target_tz.localize(naive): the aware datetime of a naive local time, as
\* the pair (UTC instant, attached offset).
Localize(tz, naive) ==
    LET off == IF naive - tz.before < tz.trans THEN tz.before ELSE tz.after
    IN  [utc |-> naive - off, off |-> off]

\* aware + timedelta: pytz keeps the attached offset, the wall clock moves.
AddDelta(aware, delta) == [utc |-> aware.utc + delta, off |-> aware.off]

\* aware.astimezone(pytz.utc)
AsUtc(aware) == aware.utc

\* datetime.datetime.now(target_tz).date()
LocalDate(tz, utc) == (utc + UtcOffsetAt(tz, utc)) \div OneDay

\* The window of a calendar day: localize midnight, add one day, to UTC.
DayWindow(tz_name, day) ==
    LET start_dt_tz == Localize(TargetTz(tz_name), day * OneDay)
        end_dt_tz   == AddDelta(start_dt_tz, OneDay)
    IN  [start |-> AsUtc(start_dt_tz), end |-> AsUtc(end_dt_tz), day |-> day]

\* logger.warning of get_last_full_day_range_utc for a name pytz does not
\* know; the explicit-day branch of process_chat_history has no such call
UnknownZoneWarning(tz_name) ==
    IF KnownZone(tz_name) THEN <<>>
    ELSE << [level |-> "WARNING", text |-> "Unknown timezone, falling back to UTC",
             tz |-> tz_name] >>

\* get_last_full_day_range_utc(tz_name) at the instant now_utc
get_last_full_day_range_utc(tz_name, now) ==
    DayWindow(tz_name, LocalDate(TargetTz(tz_name), now) - 1)

\* The start instant of a day's window, as the resolver computes it.
StartUtc(tz_name, day) == DayWindow(tz_name, day).start

\* ------------------------------------------------------------ configuration
\* config['Processing']['min_reactions_for_picture'] values tried
MinReactionsChoices == 0..1

\* like_emojis after parsing: None/empty (the empty tuple) or a list
LikeEmojisChoices == {<<>>, <<"like">>}

\* chat_id_or_username of the run
ChatRef == "chat"

\* message.reactions.results of a message: nothing, one emoji reaction, an
\* emoji reaction and a custom one
ReactionSamples ==
    { <<>>,
      <<[reaction |-> "like", count |-> 1]>>,
      <<[reaction |-> "like", count |-> 1], [reaction |-> "custom", count |-> 1]>> }

\* ------------------------------------------------------------------- state
VARIABLES
    tz_name,               \* config['History']['timezone']
    target_date_override,  \* [some |-> BOOLEAN, day |-> calendar day]
    now_utc,               \* the clock when the run starts
    min_reactions,         \* int(config['Processing']['min_reactions_for_picture'])
    like_emojis,           \* parsed allow-list
    pc,                    \* position of process_chat_history
    start_dt_utc, end_dt_utc, target_day,
    yielded,               \* what client.iter_messages has produced so far
    messages,              \* the reader's list, then the pipeline's
    reader_exit,           \* how get_chat_history_for_day_telethon returned
    flood_seconds,         \* e.seconds of the FloodWaitError caught, else 0
    slept,                 \* seconds spent in asyncio.sleep by the reader
    idx,                   \* messages handled by the for loop
    processed_data,        \* manifest records
    photo_details,         \* insertion-ordered dict, as a sequence of items
    photo_download_tasks,  \* coroutines handed to gather
    task_state,            \* per task: "created", "running", "ok", "nofile", "fail"
    results,               \* what gather returned
    files,                 \* download_dir: set of [path, content]
    downloaded_files_info, \* [defined |-> BOOLEAN, items |-> sequence]
    popular_photo_paths,
    failed_downloads,
    zip,                   \* the archive file at zip_filepath
    zidx,                  \* photos handled by the archive loop
    ret,                   \* the returned tuple
    sent_to_server,        \* json_data handed to send_raw_history_to_server
    chatid_result,         \* what process_history_chatid returned, or "pending"
    picture_file,          \* what send_raw_history_to_server returned
    saved_images,          \* image files written by send_raw_history_to_server
    report_line,           \* the archive line of the front-end's report
    log_warnings,          \* logger.warning records of the interval resolver
    server,                \* how HISTORY_ENDPOINT answers a post
    config_raw,            \* config['Processing']['min_reactions_for_picture'] as read
    admin_id_set,          \* the ids of ADMINS_IDS, parsed
    ADMIN_IDS,             \* CONFIG['Internal']['admin_id_set'], as the gate reads it
    gate_log,              \* updates the gate has handled: [user, invoked]
    KNOWN_CHATS,           \* the keys of the registry dict: [type, id]
    known_chats_file,      \* known_chats.json: [exists, keys]
    bot_status,            \* the bot's latest membership status per chat
    dirs,                  \* directories process_chat_history has made
    replies,               \* what the bot has answered in the chat of the command
    pipeline_calls,        \* arguments process_chat_history was called with by a handler
    listing,               \* the answer of /list_groupchats
    cli                    \* run_cli_processing over the known chats

vars == << tz_name, target_date_override, now_utc, min_reactions, like_emojis,
           pc, start_dt_utc, end_dt_utc, target_day, yielded, messages,
           reader_exit, flood_seconds, slept, idx, processed_data, photo_details,
           photo_download_tasks, task_state, results, files,
           downloaded_files_info, popular_photo_paths, failed_downloads,
           zip, zidx, ret, sent_to_server, chatid_result, picture_file,
           saved_images, report_line, log_warnings, server, config_raw,
           admin_id_set, ADMIN_IDS, gate_log, KNOWN_CHATS, known_chats_file,
           bot_status, dirs,
           replies, pipeline_calls, listing, cli >>

configVars == << tz_name, target_date_override, now_utc, min_reactions, like_emojis, dirs >>
windowVars == << start_dt_utc, end_dt_utc, target_day >>
readerVars == << yielded, messages, reader_exit, flood_seconds, slept >>
filterVars == << idx, processed_data, photo_details, photo_download_tasks >>
fetchVars  == << task_state, results, files, downloaded_files_info,
                 popular_photo_paths, failed_downloads >>
zipVars    == << zip, zidx >>
deliveryVars == << sent_to_server, chatid_result, picture_file, saved_images, report_line,
                  replies >>
gateVars   == << admin_id_set, ADMIN_IDS, gate_log >>
chatsVars  == << KNOWN_CHATS, known_chats_file, bot_status >>
cmdVars    == << pipeline_calls, listing, cli >>
frontVars  == << server, config_raw, gateVars, chatsVars, cmdVars >>

\* None in the place of the archive path
NoneZip == [dir |-> "None", chat |-> "None", day |-> 0]

NoReturn == [returned |-> FALSE, zip_path |-> NoneZip, photos |-> <<>>]
Return(zp, photos) == [returned |-> TRUE, zip_path |-> zp, photos |-> photos]

NoZip == [exists |-> FALSE, open |-> FALSE, entries |-> <<>>]

\* ------------------------------------------------- the front end at rest
\* None in the place of the path send_raw_history_to_server returns
NoPicture == [some |-> FALSE, dir |-> "None", name |-> 0]

\* a server that answers 200 with a JSON object holding a decodable image
DefaultServer == [net |-> "ok", status |-> 200, body |-> "image", disk_ok |-> TRUE]

\* a configuration value that is the text of an integer, or is not
RawInt(n) == [is_int |-> TRUE, value |-> n]
RawText == [is_int |-> FALSE, value |-> 0]

DigitChars == << "0", "1", "2", "3", "4", "5", "6", "7", "8", "9" >>

RECURSIVE StrOfInt(_)
\* str(n) of a natural number, as its characters
StrOfInt(n) ==
    IF n < 10 THEN << DigitChars[n + 1] >>
    ELSE StrOfInt(n \div 10) \o << DigitChars[(n % 10) + 1] >>

RECURSIVE JoinInts(_)
\* ", ".join(str(n) for n in ids)
JoinInts(ids) ==
    IF ids = <<>> THEN <<>>
    ELSE IF Len(ids) = 1 THEN StrOfInt(ids[1])
    ELSE StrOfInt(ids[1]) \o << ",", " " >> \o JoinInts(Tail(ids))

\* str(a set of ints) whose elements are listed in the order `ids`:
\* config['Internal'] = {'admin_id_set': admin_ids} stores this text
StrOfSet(ids) == << "{" >> \o JoinInts(ids) \o << "}" >>

\* the chats the bot can be a member of
Chats == {1, 2}

NoFile == [exists |-> FALSE, keys |-> {}]

\* nothing reported or delivered yet
DeliveryIdle ==
    /\ sent_to_server = <<>> /\ chatid_result = "pending"
    /\ picture_file = NoPicture /\ saved_images = {} /\ report_line = ""
    /\ log_warnings = <<>>
    /\ replies = {}

\* /list_groupchats not answered
NoListing == [answered |-> FALSE, raised |-> FALSE, lines |-> {}]

\* run_cli_processing not running
CliIdle == [keys |-> <<>>, idx |-> 0, running |-> FALSE, trace |-> <<>>]

\* no command handled, no CLI run
CommandsIdle ==
    /\ pipeline_calls = {}
    /\ listing = NoListing
    /\ cli = CliIdle

\* one admin, no known chat, no update handled
GateAndChatsIdle ==
    /\ admin_id_set = {12} /\ ADMIN_IDS = StrOfSet(<< 12 >>) /\ gate_log = {}
    /\ KNOWN_CHATS = {} /\ known_chats_file = NoFile
    /\ bot_status = [c \in Chats |-> "none"]

\* The front end before any update is handled.
FrontEndIdle ==
    /\ DeliveryIdle
    /\ server = DefaultServer
    /\ GateAndChatsIdle
    /\ CommandsIdle

\* download_dir and archive_dir of the configuration
OutputDirs == {"download_dir", "archive_dir"}

\* process_chat_history when it has read its configuration.
PipelineIdle(zones, overrides, nows, mins, likes) ==
    /\ tz_name \in zones
    /\ target_date_override \in overrides
    /\ now_utc \in nows
    /\ min_reactions \in mins
    /\ like_emojis \in likes
    /\ pc = "start"
    /\ start_dt_utc = 0 /\ end_dt_utc = 0 /\ target_day = 0
    /\ yielded = <<>> /\ messages = <<>> /\ reader_exit = "none"
    /\ flood_seconds = 0 /\ slept = 0
    /\ idx = 0 /\ processed_data = <<>> /\ photo_details = <<>>
    /\ photo_download_tasks = <<>>
    /\ task_state = <<>> /\ results = <<>> /\ files = {}
    /\ downloaded_files_info = [defined |-> FALSE, items |-> <<>>]
    /\ popular_photo_paths = <<>> /\ failed_downloads = <<>>
    /\ zip = NoZip /\ zidx = 0
    /\ ret = NoReturn
    /\ config_raw = RawInt(min_reactions)
    /\ dirs = OutputDirs

\* The state when process_chat_history has read its configuration.
InitWith(zones, overrides, nows, mins, likes) ==
    /\ PipelineIdle(zones, overrides, nows, mins, likes)
    /\ FrontEndIdle

NoOverride == [some |-> FALSE, day |-> 0]
Override(day) == [some |-> TRUE, day |-> day]

\* ------------------------------------------------- 1. determine date range
\* a str handed over where a datetime.date is expected
TextOverride(text) == [some |-> TRUE, text |-> text]

\* target_date_override is a datetime.date
IsDate(override) == "day" \in DOMAIN override

\* datetime.combine(target_day, time.min) with a str raises TypeError
\* outside every try block: it leaves process_chat_history and ends in the
\* handler of process_history_command, which answers in the chat
DetermineDateRange ==
    /\ pc = "start"
    /\ IF target_date_override.some /\ ~IsDate(target_date_override)
       THEN /\ pc' = "raised"
            /\ replies' = replies \cup {"An unexpected error occurred"}
            /\ UNCHANGED << windowVars, log_warnings >>
       ELSE /\ LET w == IF target_date_override.some
                        THEN DayWindow(tz_name, target_date_override.day)
                        ELSE get_last_full_day_range_utc(tz_name, now_utc)
               IN  /\ start_dt_utc' = w.start
                   /\ end_dt_utc' = w.end
                   /\ target_day' = w.day
            /\ log_warnings' = IF target_date_override.some THEN log_warnings
                               ELSE log_warnings \o UnknownZoneWarning(tz_name)
            /\ pc' = "fetch"
            /\ UNCHANGED replies
    /\ UNCHANGED << sent_to_server, chatid_result, picture_file, saved_images, report_line,
                    frontVars, configVars, readerVars, filterVars, fetchVars,
                    zipVars, ret >>

\* The clock values tried when the day defaults to yesterday.
NowChoices == { d * OneDay + m : d \in 2..(MaxDay + 1), m \in {30, 720, 1410} }

\* The interval resolver on its own: every zone, explicit day or yesterday.
InitWindow ==
    \/ InitWith(ZoneNames, {NoOverride}, NowChoices, {0}, {<<>>})
    \/ InitWith(ZoneNames, {Override(d) : d \in Days}, {2 * OneDay + 720}, {0}, {<<>>})

NextWindow == DetermineDateRange

SpecWindow == InitWindow /\ [][NextWindow]_vars

\* ------------------------------------------------------ 2. fetch the history
\* What the transport can yield for a read anchored at start_dt_utc: a
\* message just before the window, at its start, at its last minute, at its
\* end.  What a message outside the window carries is never looked at.
TransportDates == {start_dt_utc - 1, start_dt_utc, end_dt_utc - 1, end_dt_utc}

InWindow(date) == start_dt_utc <= date /\ date < end_dt_utc

\* msg.get_sender(): an entity, or None when the sender cannot be resolved
KnownSender == [some |-> TRUE, id |-> 5, name |-> "Ann"]
NoSender == [some |-> FALSE, id |-> 0, name |-> "None"]

TransportMessages(id) ==
    { [id |-> id, date |-> d, kind |-> "Message", photo |-> ph, reactions |-> rs,
       sender |-> KnownSender, text |-> "hi"] :
        d \in {x \in TransportDates : InWindow(x)}, ph \in {0, 7}, rs \in ReactionSamples }
    \cup
    { [id |-> id, date |-> d, kind |-> "Message", photo |-> 0, reactions |-> <<>>,
       sender |-> NoSender, text |-> "None"] :
        d \in {x \in TransportDates : InWindow(x)} }
    \cup
    { [id |-> id, date |-> d, kind |-> "MessageService", photo |-> 0, reactions |-> <<>>,
       sender |-> KnownSender, text |-> "None"] :
        d \in {x \in TransportDates : InWindow(x)} }
    \cup
    { [id |-> id, date |-> d, kind |-> "Message", photo |-> 0, reactions |-> <<>>,
       sender |-> KnownSender, text |-> "hi"] :
        d \in {x \in TransportDates : ~InWindow(x)} }

\* LoopBody with the end of the window taken as inclusive.
LoopBodyEndInclusive(msg_date_utc) ==
    IF msg_date_utc > end_dt_utc THEN "continue"
    ELSE IF start_dt_utc <= msg_date_utc /\ msg_date_utc <= end_dt_utc THEN "append"
    ELSE IF msg_date_utc >= end_dt_utc THEN "break"
    ELSE "skip"

\* The body of the async for loop for one message: what it does with it.
LoopBody(msg_date_utc) ==
    IF msg_date_utc >= end_dt_utc THEN "continue"
    ELSE IF start_dt_utc <= msg_date_utc /\ msg_date_utc < end_dt_utc THEN "append"
    ELSE IF msg_date_utc >= end_dt_utc THEN "break"
    ELSE "skip"

\* ExceptReturn with one handler returning the list collected so far.
ExceptReturnKeepsOnFlood(kind, collected) == IF kind = "flood" THEN collected ELSE <<>>
ExceptReturnKeepsOnError(kind, collected) == IF kind = "error" THEN collected ELSE <<>>
ExceptReturnKeepsOnAccess(kind, collected) == IF kind = "access" THEN collected ELSE <<>>

\* The value a handler of the reader's try block returns, given the list
\* collected so far.
ExceptReturn(kind, collected) == <<>>

\* asyncio.sleep(e.seconds + 1)
FloodSleep(seconds) == seconds + 1

\* async with telethon_client raises (no session, 2FA password, network)
ClientConnectFails ==
    /\ pc = "fetch"
    /\ pc' = "done"
    /\ ret' = Return(NoneZip, <<>>)
    /\ UNCHANGED << deliveryVars, frontVars, log_warnings, configVars, windowVars, readerVars, filterVars, fetchVars, zipVars >>

\* client.is_user_authorized() is false: return []
ReaderUnauthorized ==
    /\ pc = "fetch"
    /\ messages' = <<>>
    /\ reader_exit' = "unauthorized"
    /\ pc' = "fetched"
    /\ UNCHANGED << deliveryVars, frontVars, log_warnings, configVars, windowVars, yielded, flood_seconds, slept, filterVars, fetchVars, zipVars, ret >>

\* the client is connected and authorized: the iteration starts
ReaderBegin ==
    /\ pc = "fetch"
    /\ pc' = "reading"
    /\ UNCHANGED << deliveryVars, frontVars, log_warnings, configVars, windowVars, readerVars, filterVars, fetchVars, zipVars, ret >>

\* iter_messages(reverse=True) yields the next message, oldest first
IterMessage ==
    /\ pc = "reading"
    /\ Len(yielded) < MaxStream
    /\ \E message \in TransportMessages(Len(yielded) + 1) :
         /\ Len(yielded) > 0 => yielded[Len(yielded)].date <= message.date
         /\ yielded' = Append(yielded, message)
         /\ LET step == LoopBody(message.date)
            IN  /\ messages' = IF step = "append" THEN Append(messages, message) ELSE messages
                /\ reader_exit' = IF step = "break" THEN "break" ELSE reader_exit
                /\ pc' = IF step = "break" THEN "fetched" ELSE "reading"
    /\ UNCHANGED << deliveryVars, frontVars, log_warnings, configVars, windowVars, flood_seconds, slept, filterVars, fetchVars, zipVars, ret >>

\* the transport has no newer message: the loop ends, return messages
IterExhausted ==
    /\ pc = "reading"
    /\ reader_exit' = "exhausted"
    /\ pc' = "fetched"
    /\ UNCHANGED << deliveryVars, frontVars, log_warnings, configVars, windowVars, yielded, messages, flood_seconds, slept, filterVars, fetchVars, zipVars, ret >>

\* the transport raises while the reader waits for the next message:
\* "access" is ChatAdminRequiredError or UserNotParticipantError, "value" a
\* ValueError, "error" any other Exception
IterRaises ==
    /\ pc = "reading"
    /\ \E kind \in {"access", "value", "error"} :
         /\ reader_exit' = kind
         /\ messages' = ExceptReturn(kind, messages)
    /\ pc' = "fetched"
    /\ UNCHANGED << deliveryVars, frontVars, log_warnings, configVars, windowVars, yielded, flood_seconds, slept, filterVars, fetchVars, zipVars, ret >>

\* FloodWaitError: sleep, then return
IterFloodWait ==
    /\ pc = "reading"
    /\ \E seconds \in 1..MaxFloodSeconds :
         /\ flood_seconds' = seconds
         /\ slept' = slept + FloodSleep(seconds)
    /\ reader_exit' = "flood"
    /\ messages' = ExceptReturn("flood", messages)
    /\ pc' = "fetched"
    /\ UNCHANGED << deliveryVars, frontVars, log_warnings, configVars, windowVars, yielded, filterVars, fetchVars, zipVars, ret >>

\* NotMessages never true: an empty day goes on to the archive.
NotMessagesNever(fetched) == FALSE

\* not messages
NotMessages(fetched) == fetched = <<>>

\* if not messages: return None, []
NoMessages ==
    /\ pc = "fetched"
    /\ NotMessages(messages)
    /\ pc' = "done"
    /\ ret' = Return(NoneZip, <<>>)
    /\ UNCHANGED << deliveryVars, frontVars, log_warnings, configVars, windowVars, readerVars, filterVars, fetchVars, zipVars >>

\* --------------------------------------- 3. process messages, find photos
RECURSIVE SumCountsOfAll(_, _)
\* SumCounts with the allow-list never consulted.
SumCountsOfAll(entries, allowed) ==
    IF entries = <<>> THEN 0
    ELSE Head(entries).count + SumCountsOfAll(Tail(entries), allowed)

RECURSIVE SumCounts(_, _)
\* the for loops of count_telethon_message_reactions: add the counts of
\* the entries the predicate keeps
SumCounts(entries, allowed) ==
    IF entries = <<>> THEN 0
    ELSE (IF allowed = {} \/ Head(entries).reaction \in allowed
          THEN Head(entries).count ELSE 0)
         + SumCounts(Tail(entries), allowed)

count_telethon_message_reactions(message, emojis) ==
    IF message.reactions = <<>> THEN 0
    ELSE SumCounts(message.reactions, {emojis[i] : i \in DOMAIN emojis})

\* f"{target_day}_{msg.chat_id}_{msg.id}_{photo_id}.jpg"
PhotoFilename(day, msg) == [day |-> day, chat |-> ChatRef, msg |-> msg.id, photo |-> msg.photo]
\* f"photos/{photo_filename}"
PhotoRelPath(day, msg) == [dir |-> "photos", name |-> PhotoFilename(day, msg)]
\* download_dir / photo_filename
LocalSavePath(day, msg) == [dir |-> "download_dir", name |-> PhotoFilename(day, msg)]

\* MeetsThreshold with a strict comparison.
MeetsThresholdStrict(reaction_count, minimum) == reaction_count > minimum

\* reaction_count >= min_reactions
MeetsThreshold(reaction_count, minimum) == reaction_count >= minimum

\* d[key] = item on an insertion-ordered dict kept as a sequence of items
DictSet(d, item) ==
    IF \E i \in DOMAIN d : d[i].msg_id = item.msg_id
    THEN [i \in DOMAIN d |-> IF d[i].msg_id = item.msg_id THEN item ELSE d[i]]
    ELSE Append(d, item)

DictKeys(d) == {d[i].msg_id : i \in DOMAIN d}

\* get_display_name(sender_obj) if sender_obj else "Unknown Sender"
SenderName(sender_obj) == IF sender_obj.some THEN sender_obj.name ELSE "Unknown Sender"

\* sender_obj.id if sender_obj else None; None is written 0, no entity has id 0
SenderId(sender_obj) == IF sender_obj.some THEN sender_obj.id ELSE 0

\* msg.text or ""
MsgText(msg) == IF msg.text = "None" THEN "" ELSE msg.text

\* msg.date.isoformat(): the instant as text
IsoFormat(date) == [iso |-> date]

\* the record the loop builds for one message
MessageInfo(msg, day, emojis) ==
    [message_id |-> msg.id,
     sender     |-> SenderName(msg.sender),
     sender_id  |-> SenderId(msg.sender),
     timestamp  |-> IsoFormat(msg.date),
     text       |-> MsgText(msg),
     reactions  |-> count_telethon_message_reactions(msg, emojis),
     photos     |-> IF msg.photo # 0
                    THEN <<[photo_id |-> msg.photo, zip_path |-> PhotoRelPath(day, msg)]>>
                    ELSE <<>>]

\* async with download_client raises, or the client is not authorized
\* (ValueError): both handlers only log, the archive step follows
DownloadClientFails ==
    /\ pc = "fetched"
    /\ ~NotMessages(messages)
    /\ pc' = "zip"
    /\ UNCHANGED << deliveryVars, frontVars, log_warnings, configVars, windowVars, readerVars, filterVars, fetchVars, zipVars, ret >>

DownloadClientReady ==
    /\ pc = "fetched"
    /\ ~NotMessages(messages)
    /\ pc' = "process"
    /\ UNCHANGED << deliveryVars, frontVars, log_warnings, configVars, windowVars, readerVars, filterVars, fetchVars, zipVars, ret >>

\* AppendRecord putting the new record first.
PrependRecord(data, message_info) == <<message_info>> \o data

\* processed_data.append(message_info)
AppendRecord(data, message_info) == Append(data, message_info)

\* one iteration of `for msg in messages`
ProcessMessage ==
    /\ pc = "process"
    /\ idx < Len(messages)
    /\ LET msg == messages[idx + 1]
           reaction_count == count_telethon_message_reactions(msg, like_emojis)
           schedule == /\ msg.kind = "Message"
                       /\ msg.photo # 0
                       /\ MeetsThreshold(reaction_count, min_reactions)
       IN  /\ processed_data' = IF msg.kind = "Message"
                                THEN AppendRecord(processed_data,
                                                  MessageInfo(msg, target_day, like_emojis))
                                ELSE processed_data
           /\ photo_details' =
                IF schedule
                THEN DictSet(photo_details,
                             [msg_id |-> msg.id,
                              local_path |-> LocalSavePath(target_day, msg),
                              zip_path |-> PhotoRelPath(target_day, msg),
                              media |-> msg.photo])
                ELSE photo_details
           /\ photo_download_tasks' =
                IF schedule
                THEN Append(photo_download_tasks,
                            [media |-> msg.photo, owner |-> msg.id,
                             path |-> LocalSavePath(target_day, msg)])
                ELSE photo_download_tasks
    /\ idx' = idx + 1
    /\ UNCHANGED << deliveryVars, frontVars, log_warnings, pc, configVars, windowVars, readerVars, fetchVars, zipVars, ret >>

\* msg.get_sender() raises: except Exception logs, the archive step follows
ProcessMessageRaises ==
    /\ pc = "process"
    /\ idx < Len(messages)
    /\ messages[idx + 1].kind = "Message"
    /\ pc' = "zip"
    /\ UNCHANGED << deliveryVars, frontVars, log_warnings, configVars, windowVars, readerVars, filterVars, fetchVars, zipVars, ret >>

\* ------------------------------------------- 4. download popular photos
EmptyInfo == [defined |-> TRUE, items |-> <<>>]

\* the loop is over and nothing was scheduled
NoDownloads ==
    /\ pc = "process"
    /\ idx = Len(messages)
    /\ photo_download_tasks = <<>>
    /\ downloaded_files_info' = EmptyInfo
    /\ pc' = "zip"
    /\ UNCHANGED << deliveryVars, frontVars, log_warnings, configVars, windowVars, readerVars, filterVars, task_state, results,
                    files, popular_photo_paths, failed_downloads, zipVars, ret >>

\* The in-flight maximum the configuration would carry (an integer >= 1).
maxConcurrentDownloads == 1

\* GatherStarts with a limiter: only the first maxConcurrentDownloads run.
GatherStartsBounded(tasks) ==
    [i \in DOMAIN tasks |-> IF i <= maxConcurrentDownloads THEN "running" ELSE "created"]

\* The tasks asyncio.gather starts when it is awaited.
GatherStarts(tasks) == [i \in DOMAIN tasks |-> "running"]

\* asyncio.gather(*photo_download_tasks, return_exceptions=True) is awaited
StartDownloads ==
    /\ pc = "process"
    /\ idx = Len(messages)
    /\ photo_download_tasks # <<>>
    /\ downloaded_files_info' = EmptyInfo
    /\ task_state' = GatherStarts(photo_download_tasks)
    /\ pc' = "gather"
    /\ UNCHANGED << deliveryVars, frontVars, log_warnings, configVars, windowVars, readerVars, filterVars, results,
                    files, popular_photo_paths, failed_downloads, zipVars, ret >>

\* download_telethon_file of task i finishes: the file is written ("ok"),
\* download_media returns without writing ("nofile"), or it raises ("fail")
DownloadCompletes ==
    /\ pc = "gather"
    /\ \E i \in DOMAIN task_state, outcome \in {"ok", "nofile", "fail"} :
         /\ task_state[i] = "running"
         /\ task_state' = [task_state EXCEPT ![i] = outcome]
         /\ files' = IF outcome = "ok"
                     THEN {f \in files : f.path # photo_download_tasks[i].path}
                          \cup {[path |-> photo_download_tasks[i].path,
                                 content |-> [media |-> photo_download_tasks[i].media,
                                              owner |-> photo_download_tasks[i].owner]]}
                     ELSE files
    /\ UNCHANGED << deliveryVars, frontVars, log_warnings, pc, configVars, windowVars, readerVars, filterVars, results,
                    downloaded_files_info, popular_photo_paths, failed_downloads, zipVars, ret >>

NoPath == [dir |-> "None", name |-> [day |-> 0, chat |-> "None", msg |-> 0, photo |-> 0]]

\* what download_telethon_file returns: path, or None after an exception
DownloadResult(outcome, path) ==
    IF outcome = "fail" THEN [kind |-> "None", path |-> NoPath]
    ELSE [kind |-> "Path", path |-> path]

Exists(disk, path) == \E f \in disk : f.path = path

\* SuccessfulDownloads without the test that the file is there.
SuccessfulDownloadsAnyPath(res, disk) ==
    LET keep == SelectSeq(res, LAMBDA r : r.kind = "Path")
    IN  [i \in DOMAIN keep |-> keep[i].path]

\* [str(res) for res in results if isinstance(res, Path) and res.exists()]
SuccessfulDownloads(res, disk) ==
    LET keep == SelectSeq(res, LAMBDA r : r.kind = "Path" /\ Exists(disk, r.path))
    IN  [i \in DOMAIN keep |-> keep[i].path]

RECURSIVE FailedFrom(_, _, _)
\* [str(details['local_path']) for i, details in enumerate(photo_details.values())
\*  if isinstance(results[i], Exception)]
FailedFrom(i, details, res) ==
    IF i > Len(details) THEN <<>>
    ELSE (IF res[i].kind = "Exception" THEN <<details[i].local_path>> ELSE <<>>)
         \o FailedFrom(i + 1, details, res)

FailedDownloads(details, res) == FailedFrom(1, details, res)

\* Correlate by position: the k-th successful path goes to the k-th item.
CorrelateByPosition(successful, details, info) ==
    [k \in DOMAIN successful |->
        [msg_id |-> details[k].msg_id,
         local_path |-> successful[k],
         zip_path |-> details[k].zip_path]]

RECURSIVE Correlate(_, _, _)
\* for path_str in successful_downloads: the first item of photo_details
\* whose local_path is path_str gives the key and the zip_path
Correlate(successful, details, info) ==
    IF successful = <<>> THEN info
    ELSE LET path_str == Head(successful)
             hits == {i \in DOMAIN details : details[i].local_path = path_str}
             info2 == IF hits = {} THEN info
                      ELSE LET d == details[CHOOSE i \in hits : \A j \in hits : i <= j]
                           IN  DictSet(info, [msg_id |-> d.msg_id,
                                              local_path |-> path_str,
                                              zip_path |-> d.zip_path])
         IN  Correlate(Tail(successful), details, info2)

\* BatchComplete as soon as one download is over.
BatchCompleteOnFirst(states) == \E i \in DOMAIN states : states[i] # "running"

\* await asyncio.gather(...) returns when every download has returned
BatchComplete(states) == \A i \in DOMAIN states : states[i] # "running"

\* gather returns: results, the logging lists, downloaded_files_info
GatherReturns ==
    /\ pc = "gather"
    /\ BatchComplete(task_state)
    /\ LET res == [i \in DOMAIN task_state |->
                      DownloadResult(task_state[i], photo_download_tasks[i].path)]
           successful == SuccessfulDownloads(res, files)
       IN  /\ results' = res
           /\ failed_downloads' = FailedDownloads(photo_details, res)
           /\ popular_photo_paths' = popular_photo_paths \o successful
           /\ downloaded_files_info' =
                [defined |-> TRUE, items |-> Correlate(successful, photo_details, <<>>)]
    /\ pc' = "zip"
    /\ UNCHANGED << deliveryVars, frontVars, log_warnings, configVars, windowVars, readerVars, filterVars, task_state,
                    files, zipVars, ret >>

\* -------------------------------------------------- 5. create zip archive
\* archive_dir / f"chat_history_{safe_chat_ref}_{target_day}.zip"
ZipFilepath(day) == [dir |-> "archive_dir", chat |-> ChatRef, day |-> day]

\* JSON values, as json.dumps renders the Python ones: int, str, None, list
\* and dict (members in insertion order)
JsonNumber(n) == [type |-> "number", v |-> n]
JsonString(s) == [type |-> "string", v |-> s]
JsonNull == [type |-> "null"]
JsonArray(items) == [type |-> "array", items |-> items]
JsonObject(members) == [type |-> "object", members |-> members]
Member(key, value) == [key |-> key, value |-> value]

\* one element of message_info["photos"]
DumpPhoto(p) ==
    JsonObject(<< Member("photo_id", JsonNumber(p.photo_id)),
                  Member("zip_path", JsonString(p.zip_path)) >>)

\* one message_info dict
DumpRecord(r) ==
    JsonObject(<< Member("message_id", JsonNumber(r.message_id)),
                  Member("sender", JsonString(r.sender)),
                  Member("sender_id", IF r.sender_id = 0 THEN JsonNull
                                      ELSE JsonNumber(r.sender_id)),
                  Member("timestamp", JsonString(r.timestamp)),
                  Member("text", JsonString(r.text)),
                  Member("reactions", JsonNumber(r.reactions)),
                  Member("photos", JsonArray([i \in DOMAIN r.photos |->
                                                 DumpPhoto(r.photos[i])])) >>)

\* json.dumps(processed_data, indent=2, ensure_ascii=False)
JsonDumps(data) == JsonArray([i \in DOMAIN data |-> DumpRecord(data[i])])

ManifestEntry(data) ==
    [kind |-> "manifest", name |-> "messages.json", content |-> JsonDumps(data)]

\* ManifestSource keeping a record's photos only when the download of its
\* message is among the successful ones.
ManifestSourceDownloadedOnly(data, info) ==
    [i \in DOMAIN data |->
        IF data[i].message_id \in DictKeys(info.items) THEN data[i]
        ELSE [data[i] EXCEPT !.photos = <<>>]]

\* what line 374 serialises: processed_data as the loop left it;
\* downloaded_files_info is not consulted
ManifestSource(data, info) == data
\* PhotoEntry with the file stored under its local name (no arcname).
PhotoEntryLocalName(zip_path, content) ==
    [kind |-> "photo", name |-> [dir |-> "download_dir", name |-> zip_path.name],
     content |-> content]

\* zf.write(local_path, arcname=zip_path)
PhotoEntry(zip_path, content) == [kind |-> "photo", name |-> zip_path, content |-> content]

\* zipfile.ZipFile(zip_filepath, 'w') raises: nothing is created
ZipOpenFails ==
    /\ pc = "zip"
    /\ pc' = "done"
    /\ ret' = Return(NoneZip, popular_photo_paths)
    /\ UNCHANGED << deliveryVars, frontVars, log_warnings, configVars, windowVars, readerVars, filterVars, fetchVars, zipVars >>

\* the file is created and messages.json written; when the download phase
\* ended before downloaded_files_info was bound, the photo loop raises
\* NameError, the with block closes the file and the handler returns None
ZipWriteManifest ==
    /\ pc = "zip"
    /\ IF downloaded_files_info.defined
       THEN /\ zip' = [exists |-> TRUE, open |-> TRUE,
                       entries |-> <<ManifestEntry(ManifestSource(processed_data, downloaded_files_info))>>]
            /\ pc' = "zip_photos"
            /\ ret' = ret
       ELSE /\ zip' = [exists |-> TRUE, open |-> FALSE,
                       entries |-> <<ManifestEntry(ManifestSource(processed_data, downloaded_files_info))>>]
            /\ pc' = "done"
            /\ ret' = Return(NoneZip, popular_photo_paths)
    /\ zidx' = 0
    /\ UNCHANGED << deliveryVars, frontVars, log_warnings, configVars, windowVars, readerVars, filterVars, fetchVars >>

\* zf.write(local_path, arcname=zip_path) for the next downloaded photo
ZipAddPhoto ==
    /\ pc = "zip_photos"
    /\ zidx < Len(downloaded_files_info.items)
    /\ LET info == downloaded_files_info.items[zidx + 1]
       IN  zip' = IF Exists(files, info.local_path)
                  THEN [zip EXCEPT !.entries =
                          Append(@, PhotoEntry(info.zip_path,
                                     (CHOOSE f \in files : f.path = info.local_path).content))]
                  ELSE zip
    /\ zidx' = zidx + 1
    /\ UNCHANGED << deliveryVars, frontVars, log_warnings, pc, configVars, windowVars, readerVars, filterVars, fetchVars, ret >>

\* a write into the archive raises: the with block closes the file with
\* what it holds, the handler returns None and the photo paths
ZipWriteFails ==
    /\ pc = "zip_photos"
    /\ zidx < Len(downloaded_files_info.items)
    /\ zip' = [zip EXCEPT !.open = FALSE]
    /\ pc' = "done"
    /\ ret' = Return(NoneZip, popular_photo_paths)
    /\ UNCHANGED << deliveryVars, frontVars, log_warnings, configVars, windowVars, readerVars, filterVars, fetchVars, zidx >>

\* the with block ends: return str(zip_filepath), popular_photo_paths
ZipClose ==
    /\ pc = "zip_photos"
    /\ zidx = Len(downloaded_files_info.items)
    /\ zip' = [zip EXCEPT !.open = FALSE]
    /\ pc' = "done"
    /\ ret' = Return(ZipFilepath(target_day), popular_photo_paths)
    /\ UNCHANGED << deliveryVars, frontVars, log_warnings, configVars, windowVars, readerVars, filterVars, fetchVars, zidx >>

\* ------------------------------------------- 6. the caller hands over
\* ShouldDeliver without the test of the returned path.
ShouldDeliverIfFileExists(zip_filepath, exists) == exists

\* if zip_filepath and os.path.exists(zip_filepath)
ShouldDeliver(zip_filepath, exists) == zip_filepath # NoneZip /\ exists

\* logger.info lines 539-542 (and the reply built at 316-320): one wording
\* for a run without archive, whatever the reason
ReportLineInverted(zip_filepath) ==
    IF zip_filepath # NoneZip
    THEN "Archive creation failed or no messages processed"
    ELSE "Archive created"

ReportLine(zip_filepath) ==
    IF zip_filepath # NoneZip THEN "Archive created"
    ELSE "Archive creation failed or no messages processed"

\* RaisesForStatus rejecting everything outside 200..299.
RaisesForStatusNon2xx(status) == status < 200 \/ status >= 300

\* response.raise_for_status(): HTTPError for 4xx and 5xx only
RaisesForStatus(status) == 400 <= status /\ status < 600

\* SendRaises with a write to the image file that cannot fail.
SendRaisesWriteNeverFails(srv) ==
    IF srv.net # "ok" THEN "RequestException"
    ELSE IF RaisesForStatus(srv.status) THEN "HTTPError"
    ELSE IF srv.body = "not_json" THEN "JSONDecodeError"
    ELSE IF srv.body = "scalar" THEN "TypeError"
    ELSE IF srv.body = "no_field" THEN "none"
    ELSE IF srv.body = "undecodable" THEN "binascii.Error"
    ELSE "none"

\* The exception the body of the try block of send_raw_history_to_server
\* raises against this server, in the order of its statements, or "none".
SendRaises(srv) ==
    IF srv.net # "ok" THEN "RequestException"              \* requests.post
    ELSE IF RaisesForStatus(srv.status) THEN "HTTPError"   \* raise_for_status
    ELSE IF srv.body = "not_json" THEN "JSONDecodeError"   \* response.json()
    ELSE IF srv.body = "scalar" THEN "TypeError"           \* 'image_base64' in result
    ELSE IF srv.body = "no_field" THEN "none"
    ELSE IF srv.body = "undecodable" THEN "binascii.Error" \* base64.b64decode
    ELSE IF ~srv.disk_ok THEN "OSError"                    \* open(filepath, 'wb')
    ELSE "none"

\* SendHandler without the last `except Exception`.
SendHandlerNoCatchAll(exc) ==
    IF exc = "JSONDecodeError" THEN "except json.JSONDecodeError"
    ELSE IF exc \in {"RequestException", "HTTPError"}
         THEN "except requests.exceptions.RequestException"
    ELSE "escapes"

\* the except clause of send_raw_history_to_server that takes the exception
SendHandler(exc) ==
    IF exc = "JSONDecodeError" THEN "except json.JSONDecodeError"
    ELSE IF exc \in {"RequestException", "HTTPError"}
         THEN "except requests.exceptions.RequestException"
    ELSE "except Exception"

\* downloads_dir.joinpath(f'image_{now}.png')
ImagePath(now) == [some |-> TRUE, dir |-> "download_dir", name |-> now]

\* send_raw_history_to_server(history_endpoint, json_string_data): what it
\* returns, the image files afterwards, whether an exception leaves it
send_raw_history_to_server(srv, json_string_data, now, images) ==
    IF json_string_data.type = "empty"
    THEN [ret |-> NoPicture, images |-> images, raised |-> FALSE]
    ELSE IF SendRaises(srv) # "none"
    THEN [ret |-> NoPicture, images |-> images,
          raised |-> SendHandler(SendRaises(srv)) = "escapes"]
    ELSE IF srv.body = "image"
    THEN [ret |-> ImagePath(now),
          images |-> images \cup {[path |-> ImagePath(now), content |-> "image_data"]},
          raised |-> FALSE]
    ELSE [ret |-> NoPicture, images |-> images, raised |-> FALSE]

\* the caller of process_chat_history after it returned: the report, then
\* messages.json is read from the archive and handed to
\* send_raw_history_to_server; an exception ends in the caller's handler
DeliverResults ==
    /\ pc = "done"
    /\ chatid_result = "pending"
    /\ report_line' = ReportLine(ret.zip_path)
    /\ IF ShouldDeliver(ret.zip_path, zip.exists)
       THEN LET json_data == zip.entries[1].content
                out == send_raw_history_to_server(server, json_data, now_utc, saved_images)
            IN  /\ sent_to_server' = Append(sent_to_server, json_data)
                /\ picture_file' = out.ret
                /\ saved_images' = out.images
                /\ chatid_result' = IF out.raised THEN "None" ELSE "True"
       ELSE /\ sent_to_server' = sent_to_server
            /\ picture_file' = picture_file
            /\ saved_images' = saved_images
            /\ chatid_result' = "False"
    /\ UNCHANGED << pc, configVars, windowVars, readerVars, filterVars, fetchVars,
                    zipVars, ret, frontVars, log_warnings, replies >>

\* ------------------------------------------------------------ specification
Init ==
    \/ InitWith({"UTC"}, {Override(2)}, {2 * OneDay + 720},
                MinReactionsChoices, LikeEmojisChoices)
    \/ InitWith({"Europe/Berlin"}, {Override(2)}, {2 * OneDay + 720}, {0}, {<<>>})

Next ==
    \/ DetermineDateRange
    \/ ClientConnectFails
    \/ ReaderUnauthorized
    \/ ReaderBegin
    \/ IterMessage
    \/ IterExhausted
    \/ IterRaises
    \/ IterFloodWait
    \/ NoMessages
    \/ DownloadClientFails
    \/ DownloadClientReady
    \/ ProcessMessage
    \/ ProcessMessageRaises
    \/ NoDownloads
    \/ StartDownloads
    \/ DownloadCompletes
    \/ GatherReturns
    \/ ZipOpenFails
    \/ ZipWriteManifest
    \/ ZipAddPhoto
    \/ ZipWriteFails
    \/ ZipClose
    \/ DeliverResults

Spec == Init /\ [][Next]_vars

\* ------------------------------------------ the configuration is read
\* int(text) reading anything that is not an integer as 0.
IntOfTextOrZero(raw) == [raised |-> FALSE, value |-> raw.value]

\* int(config['Processing']['min_reactions_for_picture']): ValueError for a
\* text that is not an integer; any integer, negative ones too, is a value
IntOfText(raw) == [raised |-> ~raw.is_int, value |-> raw.value]

\* The values config.ini can carry for the threshold: load_configuration
\* only checks that the key is there.
RawThresholds == {RawText, RawInt(-1), RawInt(0), RawInt(1)}

\* process_chat_history from its first line to the mkdir calls; a
\* ValueError leaves it at once and ends in the handler of
\* process_history_chatid, which returns None
ReadConfiguration ==
    /\ pc = "config"
    /\ LET parsed == IntOfText(config_raw)
       IN  IF parsed.raised
           THEN /\ pc' = "raised"
                /\ chatid_result' = "None"
                /\ UNCHANGED << min_reactions, dirs >>
           ELSE /\ pc' = "start"
                /\ min_reactions' = parsed.value
                /\ dirs' = OutputDirs
                /\ UNCHANGED chatid_result
    /\ UNCHANGED << tz_name, target_date_override, now_utc, like_emojis,
                    windowVars, readerVars, filterVars, fetchVars, zipVars, ret,
                    sent_to_server, picture_file, saved_images, report_line,
                    replies, frontVars, log_warnings >>

\* process_chat_history not yet called ("idle") or at its first line
\* ("config")
BeforeConfiguration(position, overrides, raws) ==
    /\ tz_name = "UTC"
    /\ target_date_override \in overrides
    /\ now_utc = 2 * OneDay + 720
    /\ min_reactions = 0
    /\ like_emojis = <<>>
    /\ pc = position
    /\ start_dt_utc = 0 /\ end_dt_utc = 0 /\ target_day = 0
    /\ yielded = <<>> /\ messages = <<>> /\ reader_exit = "none"
    /\ flood_seconds = 0 /\ slept = 0
    /\ idx = 0 /\ processed_data = <<>> /\ photo_details = <<>>
    /\ photo_download_tasks = <<>>
    /\ task_state = <<>> /\ results = <<>> /\ files = {}
    /\ downloaded_files_info = [defined |-> FALSE, items |-> <<>>]
    /\ popular_photo_paths = <<>> /\ failed_downloads = <<>>
    /\ zip = NoZip /\ zidx = 0
    /\ ret = NoReturn
    /\ config_raw \in raws
    /\ dirs = {}

\* A run from the call of process_chat_history on, for every threshold
\* the configuration file can carry.
InitConfig ==
    /\ BeforeConfiguration("config", {Override(2)}, RawThresholds)
    /\ FrontEndIdle

NextConfig == ReadConfiguration \/ Next

SpecConfig == InitConfig /\ [][NextConfig]_vars

\* ------------------------------------- a run against a failing endpoint
\* HISTORY_ENDPOINT answering well, timing out, answering 500, answering
\* with a payload that is not base64, answering with a body that is not JSON
RunServers ==
    { DefaultServer,
      [net |-> "timeout", status |-> 0, body |-> "not_json", disk_ok |-> TRUE],
      [DefaultServer EXCEPT !.status = 500],
      [DefaultServer EXCEPT !.body = "undecodable"],
      [DefaultServer EXCEPT !.body = "not_json"] }

\* One run of process_history_chatid from the call of the pipeline to its
\* return, with every failure of the transport, the downloads, the archive
\* and the delivery.
InitRun ==
    /\ PipelineIdle({"UTC"}, {Override(2)}, {2 * OneDay + 720}, {1}, {<<>>})
    /\ DeliveryIdle
    /\ server \in RunServers
    /\ GateAndChatsIdle
    /\ CommandsIdle

NextRun == Next

SpecRun == InitRun /\ [][NextRun]_vars

\* ------------------------------------------------------- the admin gate
\* needle in haystack, for two str values given as their characters
IsSubstring(needle, haystack) ==
    \E k \in 0..(Len(haystack) - Len(needle)) :
        \A j \in 1..Len(needle) : haystack[k + j] = needle[j]

\* str(user.id) not in ADMIN_IDS, negated: ADMIN_IDS is the text configparser
\* keeps for the set, so `in` is the substring test of str
IsAllowed(user_id, admin_ids_text) == IsSubstring(StrOfInt(user_id), admin_ids_text)

\* ADMINS_IDS of the environment, in the order the set happens to list them
AdminLists == { << 12 >>, << 12, 345 >>, << 345, 12 >> }

\* ids of the users who send a command
Users == {1, 2, 12, 21, 34, 345}

SetOfSeq(ids) == { ids[i] : i \in DOMAIN ids }

\* a command of user_id reaches a handler wrapped by admin_only: the gate
\* answers "not authorized" and returns, or calls the handler
GateHandlesCommand ==
    /\ \E user_id \in Users :
          gate_log' = gate_log \cup
              {[user |-> user_id, invoked |-> IsAllowed(user_id, ADMIN_IDS)]}
    /\ UNCHANGED << pc, configVars, windowVars, readerVars, filterVars, fetchVars, zipVars,
                    ret, deliveryVars, log_warnings, server, config_raw,
                    admin_id_set, ADMIN_IDS, chatsVars, cmdVars >>

InitAdmin ==
    /\ PipelineIdle({"UTC"}, {NoOverride}, {2 * OneDay + 720}, {1}, {<<>>})
    /\ DeliveryIdle
    /\ server = DefaultServer
    /\ \E ids \in AdminLists :
          /\ admin_id_set = SetOfSeq(ids)
          /\ ADMIN_IDS = StrOfSet(ids)
    /\ gate_log = {}
    /\ KNOWN_CHATS = {} /\ known_chats_file = NoFile
    /\ bot_status = [c \in Chats |-> "none"]
    /\ CommandsIdle

NextAdmin == GateHandlesCommand

SpecAdmin == InitAdmin /\ [][NextAdmin]_vars

\* ------------------------------------------------ the known-chats registry
\* chat.id, an int, as a dict key
IntKey(chat_id) == [type |-> "int", id |-> chat_id]

\* a key of the JSON object of known_chats.json: always a string
StrKey(chat_id) == [type |-> "str", id |-> chat_id]

\* json.dump(KNOWN_CHATS, f): an int key is written as its decimal text, a
\* str key as it is; equal texts are one member of the object read back
JsonDumpKeys(known) == { StrKey(k.id) : k \in known }

\* save_known_chats()
save_known_chats(known) == [exists |-> TRUE, keys |-> JsonDumpKeys(known)]

\* {k: v for k, v in json.load(f).items()}: the keys stay what json.load
\* gives, strings
LoadedKeys(file) == IF file.exists THEN file.keys ELSE {}

\* ChatMemberStatus values the handler tells apart
JoinedStatuses == {"member", "administrator"}
GoneStatuses == {"left", "kicked"}

\* the bot's membership in chat changes to new_status
track_my_membership ==
    /\ \E chat \in Chats, new_status \in JoinedStatuses \cup GoneStatuses :
          /\ bot_status[chat] # new_status
          /\ bot_status' = [bot_status EXCEPT ![chat] = new_status]
          /\ IF new_status \in JoinedStatuses
             THEN IF IntKey(chat) \notin KNOWN_CHATS
                  THEN /\ KNOWN_CHATS' = KNOWN_CHATS \cup {IntKey(chat)}
                       /\ known_chats_file' = save_known_chats(KNOWN_CHATS')
                  ELSE UNCHANGED << KNOWN_CHATS, known_chats_file >>
             ELSE IF IntKey(chat) \in KNOWN_CHATS
                  THEN /\ KNOWN_CHATS' = KNOWN_CHATS \ {IntKey(chat)}
                       /\ known_chats_file' = save_known_chats(KNOWN_CHATS')
                  ELSE UNCHANGED << KNOWN_CHATS, known_chats_file >>
    /\ UNCHANGED << pc, configVars, windowVars, readerVars, filterVars, fetchVars, zipVars,
                    ret, deliveryVars, log_warnings, server, config_raw, gateVars,
                    cmdVars >>

\* a message arrives from a group the bot is in; its title is the stored
\* one or a new one
track_chats ==
    /\ \E chat \in Chats, title_changed \in BOOLEAN :
          /\ bot_status[chat] \in JoinedStatuses
          /\ IF IntKey(chat) \notin KNOWN_CHATS \/ title_changed
             THEN /\ KNOWN_CHATS' = KNOWN_CHATS \cup {IntKey(chat)}
                  /\ known_chats_file' = save_known_chats(KNOWN_CHATS')
             ELSE UNCHANGED << KNOWN_CHATS, known_chats_file >>
    /\ UNCHANGED << pc, configVars, windowVars, readerVars, filterVars, fetchVars, zipVars,
                    ret, deliveryVars, log_warnings, server, config_raw, gateVars,
                    bot_status, cmdVars >>

\* the bot is started again: main() calls load_known_chats()
load_known_chats ==
    /\ KNOWN_CHATS' = LoadedKeys(known_chats_file)
    /\ UNCHANGED << pc, configVars, windowVars, readerVars, filterVars, fetchVars, zipVars,
                    ret, deliveryVars, log_warnings, server, config_raw, gateVars,
                    known_chats_file, bot_status, cmdVars >>

InitChats == InitWith({"UTC"}, {NoOverride}, {2 * OneDay + 720}, {1}, {<<>>})

NextChats == track_my_membership \/ track_chats \/ load_known_chats

SpecChats == InitChats /\ [][NextChats]_vars

\* ------------------------------------------------- the /process_history command
\* str(n) of an integer, as its characters
StrOfSigned(n) == IF n < 0 THEN << "-" >> \o StrOfInt(0 - n) ELSE StrOfInt(n)

IsDigitChar(c) == \E i \in 1..10 : DigitChars[i] = c

DigitValue(c) == CHOOSE v \in 0..9 : DigitChars[v + 1] = c

RECURSIVE DigitsValue(_)
DigitsValue(digits) ==
    IF digits = <<>> THEN 0
    ELSE DigitsValue(SubSeq(digits, 1, Len(digits) - 1)) * 10
         + DigitValue(digits[Len(digits)])

\* int(text) for a text made of an optional minus sign and decimal digits;
\* ValueError for anything else the commands of this model carry
IntOfChars(text) ==
    LET negative == text # <<>> /\ text[1] = "-"
        digits == IF negative THEN Tail(text) ELSE text
        ok == digits # <<>> /\ \A i \in DOMAIN digits : IsDigitChar(digits[i])
    IN  [raised |-> ~ok,
         value |-> IF ~ok THEN 0
                   ELSE IF negative THEN 0 - DigitsValue(digits) ELSE DigitsValue(digits)]

\* target_chat_id: an int, or the text that int() refused
ChatInt(n) == [kind |-> "int", value |-> n, text |-> <<>>]
ChatStr(text) == [kind |-> "str", value |-> 0, text |-> text]

\* args[1] of the command, when there is one: the text of calendar day
\* `day` in the form YYYY-MM-DD, or another text
NoDateArg == [given |-> FALSE, iso |-> FALSE, day |-> 0, text |-> ""]
IsoDateArg(day) == [given |-> TRUE, iso |-> TRUE, day |-> day, text |-> "YYYY-MM-DD"]
OtherDateArg(text) == [given |-> TRUE, iso |-> FALSE, day |-> 0, text |-> text]

\* datetime.datetime.strptime(text, "%Y-%m-%d").date()
strptime(arg) == [raised |-> ~arg.iso, date |-> Override(arg.day)]

\* context.args
NoArgs == [given |-> FALSE, chat |-> <<>>, date |-> NoDateArg]
Args(chat, date) == [given |-> TRUE, chat |-> chat, date |-> date]

\* if target_chat_id
Truthy(target_chat_id) == target_chat_id.kind = "str" \/ target_chat_id.value # 0

\* process_history_command up to the call of the pipeline: the chat and the
\* date are taken from the arguments, a date that does not parse is
\* answered with the format error, and the pipeline is called with what
\* target_chat_id and target_date then hold
process_history_command(chat_where_command_was_sent, args) ==
    LET as_int == IntOfChars(args.chat)
        target_chat_id ==
            IF ~args.given THEN ChatInt(chat_where_command_was_sent)
            ELSE IF as_int.raised THEN ChatStr(args.chat)
            ELSE ChatInt(as_int.value)
        parsed == strptime(args.date)
        target_date ==
            IF ~(args.given /\ args.date.given) THEN NoOverride
            ELSE IF parsed.raised THEN TextOverride(args.date.text)
            ELSE parsed.date
        said == {"Processing request"}
                \cup (IF args.given /\ args.date.given /\ parsed.raised
                      THEN {"Error: Invalid date format"} ELSE {})
    IN  /\ pc = "idle"
        /\ replies' = replies \cup said
        /\ IF Truthy(target_chat_id)
           THEN /\ pipeline_calls' = pipeline_calls
                                       \cup {[chat |-> target_chat_id, date |-> target_date]}
                /\ target_date_override' = target_date
                /\ pc' = "config"
           ELSE UNCHANGED << pipeline_calls, target_date_override, pc >>
        /\ UNCHANGED << tz_name, now_utc, min_reactions, like_emojis, dirs,
                        windowVars, readerVars, filterVars, fetchVars, zipVars, ret,
                        sent_to_server, chatid_result, picture_file, saved_images,
                        report_line, log_warnings, server, config_raw, gateVars,
                        chatsVars, listing, cli >>

\* what an admin types after /process_history
CommandArgs ==
    {NoArgs} \cup
    { Args(chat, date) :
        chat \in { StrOfSigned(-5), << "g" >> },
        date \in { NoDateArg, IsoDateArg(2),
                   OtherDateArg("2024-13-45"), OtherDateArg("yesterday") } }

\* an admin sends /process_history in chat 1
ProcessHistoryUpdate == \E args \in CommandArgs : process_history_command(1, args)

InitCommand ==
    /\ BeforeConfiguration("idle", {NoOverride}, {RawInt(1)})
    /\ FrontEndIdle

NextCommand == ProcessHistoryUpdate \/ ReadConfiguration \/ Next

SpecCommand == InitCommand /\ [][NextCommand]_vars

\* ------------------------------------------- the list and its commands
\* "/process_history_"
CommandPrefix ==
    << "/", "p", "r", "o", "c", "e", "s", "s", "_",
       "h", "i", "s", "t", "o", "r", "y", "_" >>

\* "_minus_"
MinusWord == << "_", "m", "i", "n", "u", "s", "_" >>

\* The command string without the word for the minus sign.
CommandStringPlain(chat_id) == CommandPrefix \o chat_id

\* the command list_groupchats_command writes for the key chat_id, a str
CommandString(chat_id) ==
    IF chat_id[1] = "-"
    THEN CommandPrefix \o MinusWord \o Tail(chat_id)
    ELSE CommandPrefix \o chat_id

Letters ==
    { "a", "b", "c", "d", "e", "f", "g", "h", "i", "j", "k", "l", "m",
      "n", "o", "p", "q", "r", "s", "t", "u", "v", "w", "x", "y", "z" }

\* \w of the pattern, for the characters of this model
IsWordChar(c) == IsDigitChar(c) \/ c = "_" \/ c \in Letters

\* re.search(PROCESS_HISTORY_PATTERN, text): whether ^/process_history_(\w+)$
\* matches, and group 1
MatchPattern(text) ==
    LET n == Len(CommandPrefix)
        rest == SubSeq(text, n + 1, Len(text))
        matched == /\ Len(text) > n
                   /\ SubSeq(text, 1, n) = CommandPrefix
                   /\ \A i \in DOMAIN rest : IsWordChar(rest[i])
    IN  [matched |-> matched, group1 |-> IF matched THEN rest ELSE <<>>]

RECURSIVE Replace(_, _, _)
\* text.replace(old, new)
Replace(text, old, new) ==
    IF Len(text) < Len(old) THEN text
    ELSE IF SubSeq(text, 1, Len(old)) = old
         THEN new \o Replace(SubSeq(text, Len(old) + 1, Len(text)), old, new)
         ELSE << text[1] >> \o Replace(Tail(text), old, new)

\* ids of the chats the registry of this part can hold
ListedChatIds == {7, 42, -5, -1001}

\* /list_groupchats from an admin: the "no chats" answer, or one line per
\* key with its command; chat_id[0] on an int key raises TypeError and
\* nothing is answered
list_groupchats_command ==
    /\ pc = "idle"
    /\ ~listing.answered /\ ~listing.raised
    /\ IF KNOWN_CHATS = {}
       THEN /\ listing' = [answered |-> TRUE, raised |-> FALSE, lines |-> {}]
            /\ replies' = replies \cup {"I haven't recorded being in any chats yet."}
       ELSE IF \E k \in KNOWN_CHATS : k.type = "int"
       THEN /\ listing' = [answered |-> FALSE, raised |-> TRUE, lines |-> {}]
            /\ UNCHANGED replies
       ELSE /\ listing' = [answered |-> TRUE, raised |-> FALSE,
                           lines |-> { [chat_id |-> k.id,
                                        command |-> CommandString(StrOfSigned(k.id))] :
                                       k \in KNOWN_CHATS }]
            /\ replies' = replies \cup {"Chats I'm aware of"}
    /\ UNCHANGED << pc, configVars, windowVars, readerVars, filterVars, fetchVars, zipVars,
                    ret, sent_to_server, chatid_result, picture_file, saved_images,
                    report_line, log_warnings, server, config_raw, gateVars, chatsVars,
                    pipeline_calls, cli >>

\* an admin sends one of the listed commands in chat 1: the filter
\* COMMAND & Regex(PROCESS_HISTORY_PATTERN) lets process_history_dynamic
\* handle it, which puts the identifier in front of the arguments and calls
\* process_history_command; a text the pattern refuses goes to
\* unknown_command
process_history_dynamic ==
    \E line \in listing.lines :
        LET match == MatchPattern(line.command)
            dynamic_part == Replace(match.group1, MinusWord, << "-" >>)
        IN  IF match.matched
            THEN process_history_command(1, Args(dynamic_part, NoDateArg))
            ELSE /\ pc = "idle"
                 /\ "Unknown command" \notin replies
                 /\ replies' = replies \cup {"Unknown command"}
                 /\ UNCHANGED << pc, configVars, windowVars, readerVars, filterVars,
                                 fetchVars, zipVars, ret, sent_to_server, chatid_result,
                                 picture_file, saved_images, report_line, log_warnings,
                                 frontVars >>

\* The bot after a start with a registry read from the file (str keys), to
\* which chats may have been added since (int keys).
InitDynamic ==
    /\ BeforeConfiguration("idle", {NoOverride}, {RawInt(1)})
    /\ DeliveryIdle
    /\ server = DefaultServer
    /\ admin_id_set = {12} /\ ADMIN_IDS = StrOfSet(<< 12 >>) /\ gate_log = {}
    /\ \E loaded \in SUBSET ListedChatIds :
          \E added \in SUBSET (ListedChatIds \ loaded) :
             /\ known_chats_file = [exists |-> TRUE, keys |-> { StrKey(c) : c \in loaded }]
             /\ KNOWN_CHATS = { StrKey(c) : c \in loaded } \cup { IntKey(c) : c \in added }
    /\ bot_status = [c \in Chats |-> "none"]
    /\ CommandsIdle

NextDynamic == list_groupchats_command \/ process_history_dynamic

SpecDynamic == InitDynamic /\ [][NextDynamic]_vars

\* ------------------------------------------- the CLI over the known chats
\* the orders in which known_chats.json can list its chats
CliRegistries ==
    { <<>>, << 7 >>, << -1001 >>, << 7, -5 >>, << -5, 7 >>,
      << -1001, 7, -5 >>, << 7, -5, -1001 >> }

\* chat_id = int(chat_id) inside try/except ValueError, for a key of the
\* registry: the int, or the key itself when int() refuses it
IntOfKey(key) ==
    LET as_int == IntOfChars(StrOfSigned(key.id))
    IN  IF key.type = "int" THEN key
        ELSE IF as_int.raised THEN key
        ELSE IntKey(as_int.value)

\* chat_id != list(KNOWN_CHATS.keys())[-1], with chat_id as the loop holds
\* it after the conversion: an int never equals a str
NotTheLastKey(chat_id, keys) == chat_id # keys[Len(keys)]

\* what process_history_chatid can return: True, False, or None after an
\* exception
RunResults == {"True", "False", "None"}

\* the loop takes the next key and awaits process_history_chatid for it
CliStartsRun ==
    /\ pc = "idle"
    /\ ~cli.running
    /\ cli.idx < Len(cli.keys)
    /\ cli' = [cli EXCEPT
                 !.running = TRUE,
                 !.trace = Append(@, [ev |-> "start", pos |-> cli.idx + 1,
                                      chat_id |-> IntOfKey(cli.keys[cli.idx + 1]),
                                      result |-> "pending"])]
    /\ UNCHANGED << pc, configVars, windowVars, readerVars, filterVars, fetchVars, zipVars,
                    ret, deliveryVars, log_warnings, server, config_raw, gateVars,
                    chatsVars, pipeline_calls, listing >>

\* process_history_chatid returns to the loop, which sleeps pause_time
\* seconds when the result is true and the chat is not the last key, and
\* goes to the next key
CliRunReturns ==
    /\ pc = "idle"
    /\ cli.running
    /\ \E history_found_and_processed \in RunResults :
          LET pos == cli.idx + 1
              chat_id == IntOfKey(cli.keys[pos])
              ended == [ev |-> "end", pos |-> pos, chat_id |-> chat_id,
                        result |-> history_found_and_processed]
              paused == [ev |-> "pause", pos |-> pos, chat_id |-> chat_id,
                         result |-> history_found_and_processed]
          IN  cli' = [cli EXCEPT
                        !.running = FALSE,
                        !.idx = pos,
                        !.trace =
                            IF history_found_and_processed = "True"
                               /\ NotTheLastKey(chat_id, cli.keys)
                            THEN @ \o << ended, paused >>
                            ELSE Append(@, ended)]
    /\ UNCHANGED << pc, configVars, windowVars, readerVars, filterVars, fetchVars, zipVars,
                    ret, deliveryVars, log_warnings, server, config_raw, gateVars,
                    chatsVars, pipeline_calls, listing >>

\* main() with --cli --process-known-chats: the registry is what
\* load_known_chats read from the file
InitCli ==
    /\ BeforeConfiguration("idle", {NoOverride}, {RawInt(1)})
    /\ DeliveryIdle
    /\ server = DefaultServer
    /\ admin_id_set = {12} /\ ADMIN_IDS = StrOfSet(<< 12 >>) /\ gate_log = {}
    /\ bot_status = [c \in Chats |-> "none"]
    /\ pipeline_calls = {}
    /\ listing = NoListing
    /\ \E ids \in CliRegistries :
          /\ known_chats_file = [exists |-> TRUE,
                                 keys |-> { StrKey(ids[i]) : i \in DOMAIN ids }]
          /\ KNOWN_CHATS = LoadedKeys(known_chats_file)
          /\ cli = [keys |-> [i \in DOMAIN ids |-> StrKey(ids[i])], idx |-> 0,
                    running |-> FALSE, trace |-> <<>>]

NextCli == CliStartsRun \/ CliRunReturns

SpecCli == InitCli /\ [][NextCli]_vars

\* --------------------------------------------- the pipeline, scheduled
\* The steps process_chat_history takes by itself once the downloads are
\* under way: the event loop resumes it whenever gather can return, and the
\* archive step has no await.  Whether a download returns is up to the
\* network: no step of the code ends a download that does not return.
PipelineStep ==
    \/ GatherReturns
    \/ ZipOpenFails
    \/ ZipWriteManifest
    \/ ZipAddPhoto
    \/ ZipWriteFails
    \/ ZipClose

\* one configuration: every photo qualifies
InitLive == InitWith({"UTC"}, {Override(2)}, {2 * OneDay + 720}, {0}, {<<>>})

SpecLive == InitLive /\ [][Next]_vars /\ WF_vars(PipelineStep)

\* ------------------------------------------------ the delivery on its own
\* status codes a response can carry: one of each class, and 204
Statuses == {101, 200, 204, 304, 404, 500}

\* response bodies: a JSON object with a decodable image_base64, one whose
\* field does not decode, one without the field, a JSON number, no JSON
Bodies == {"image", "undecodable", "no_field", "scalar", "not_json"}

\* how the post can go: an answer, or no answer at all (timeout, connection
\* refused, an endpoint requests cannot use, such as the empty string)
Servers ==
    { [net |-> "ok", status |-> st, body |-> b, disk_ok |-> k] :
        st \in Statuses, b \in Bodies, k \in BOOLEAN }
    \cup
    { [net |-> n, status |-> 0, body |-> "not_json", disk_ok |-> TRUE] :
        n \in {"timeout", "refused", "invalid_url"} }

\* the only message of the day in the delivery runs: a photo, no reactions
PhotoMessage ==
    [id |-> 1, date |-> DayWindow("UTC", 2).start, kind |-> "Message", photo |-> 7,
     reactions |-> <<>>, sender |-> KnownSender, text |-> "hi"]

\* process_chat_history has returned the archive of a day with one photo
\* message, downloaded and archived.
PipelineReturnedArchive ==
    /\ yielded = << PhotoMessage >> /\ messages = yielded
    /\ idx = 1
    /\ processed_data = << MessageInfo(PhotoMessage, 2, <<>>) >>
    /\ photo_details = << [msg_id |-> 1, local_path |-> LocalSavePath(2, PhotoMessage),
                           zip_path |-> PhotoRelPath(2, PhotoMessage), media |-> 7] >>
    /\ photo_download_tasks = << [media |-> 7, owner |-> 1,
                                  path |-> LocalSavePath(2, PhotoMessage)] >>
    /\ task_state = << "ok" >>
    /\ results = << DownloadResult("ok", LocalSavePath(2, PhotoMessage)) >>
    /\ files = { [path |-> LocalSavePath(2, PhotoMessage),
                  content |-> [media |-> 7, owner |-> 1]] }
    /\ downloaded_files_info =
          [defined |-> TRUE,
           items |-> << [msg_id |-> 1, local_path |-> LocalSavePath(2, PhotoMessage),
                         zip_path |-> PhotoRelPath(2, PhotoMessage)] >>]
    /\ popular_photo_paths = << LocalSavePath(2, PhotoMessage) >>
    /\ failed_downloads = <<>>
    /\ zip = [exists |-> TRUE, open |-> FALSE,
              entries |-> << ManifestEntry(ManifestSource(processed_data,
                                                          downloaded_files_info)),
                             PhotoEntry(PhotoRelPath(2, PhotoMessage),
                                        [media |-> 7, owner |-> 1]) >>]
    /\ zidx = 1
    /\ ret = Return(ZipFilepath(2), popular_photo_paths)

\* process_chat_history has returned from `if not messages`.
PipelineReturnedNothing ==
    /\ yielded = <<>> /\ messages = <<>>
    /\ idx = 0 /\ processed_data = <<>> /\ photo_details = <<>>
    /\ photo_download_tasks = <<>>
    /\ task_state = <<>> /\ results = <<>> /\ files = {}
    /\ downloaded_files_info = [defined |-> FALSE, items |-> <<>>]
    /\ popular_photo_paths = <<>> /\ failed_downloads = <<>>
    /\ zip = NoZip /\ zidx = 0
    /\ ret = Return(NoneZip, <<>>)

\* The caller about to look at what process_chat_history returned, for
\* every way the server can answer.
InitDelivery ==
    /\ tz_name = "UTC"
    /\ target_date_override = Override(2)
    /\ now_utc = 2 * OneDay + 720
    /\ min_reactions = 0
    /\ like_emojis = <<>>
    /\ pc = "done"
    /\ start_dt_utc = DayWindow("UTC", 2).start
    /\ end_dt_utc = DayWindow("UTC", 2).end
    /\ target_day = 2
    /\ reader_exit = "exhausted"
    /\ flood_seconds = 0 /\ slept = 0
    /\ PipelineReturnedArchive \/ PipelineReturnedNothing
    /\ config_raw = RawInt(min_reactions)
    /\ dirs = OutputDirs
    /\ sent_to_server = <<>> /\ chatid_result = "pending"
    /\ picture_file = NoPicture /\ saved_images = {} /\ report_line = ""
    /\ log_warnings = <<>>
    /\ replies = {}
    /\ server \in Servers
    /\ admin_id_set = {12} /\ ADMIN_IDS = StrOfSet(<< 12 >>) /\ gate_log = {}
    /\ KNOWN_CHATS = {} /\ known_chats_file = NoFile
    /\ bot_status = [c \in Chats |-> "none"]
    /\ CommandsIdle

NextDelivery == DeliverResults

SpecDelivery == InitDelivery /\ [][NextDelivery]_vars

\* ------------------------------------------- the reaction tally on its own
\* what message.reactions.results can hold: emoji entries and custom ones
ReactionKinds == {"like", "fire", "custom"}
ReactionEntries == [reaction : ReactionKinds, count : 1..MaxCount]
ReactionLists == UNION { [1..n -> ReactionEntries] : n \in 0..MaxEntries }

\* like_emojis values: unset, one symbol, two symbols
AllowLists == {<<>>, <<"like">>, <<"like", "fire">>}

\* The for loop about to handle the only message of the day, for every
\* reaction list and allow-list.
InitTally ==
    /\ tz_name = "UTC"
    /\ target_date_override = Override(2)
    /\ now_utc = 2 * OneDay + 720
    /\ min_reactions \in MinReactionsChoices
    /\ like_emojis \in AllowLists
    /\ pc = "process"
    /\ start_dt_utc = DayWindow("UTC", 2).start
    /\ end_dt_utc = DayWindow("UTC", 2).end
    /\ target_day = 2
    /\ \E rs \in ReactionLists, ph \in {0, 7} :
          yielded = << [id |-> 1, date |-> DayWindow("UTC", 2).start, kind |-> "Message",
                        photo |-> ph, reactions |-> rs, sender |-> KnownSender,
                        text |-> "hi"] >>
    /\ messages = yielded
    /\ reader_exit = "exhausted"
    /\ flood_seconds = 0 /\ slept = 0
    /\ idx = 0 /\ processed_data = <<>> /\ photo_details = <<>>
    /\ photo_download_tasks = <<>>
    /\ task_state = <<>> /\ results = <<>> /\ files = {}
    /\ downloaded_files_info = [defined |-> FALSE, items |-> <<>>]
    /\ popular_photo_paths = <<>> /\ failed_downloads = <<>>
    /\ zip = NoZip /\ zidx = 0
    /\ ret = NoReturn
    /\ config_raw = RawInt(min_reactions)
    /\ dirs = OutputDirs
    /\ FrontEndIdle

NextTally == ProcessMessage

SpecTally == InitTally /\ [][NextTally]_vars

\* ------------------------------------------------------------------ claims
ReaderReturned == pc \notin {"start", "fetch", "reading"}

InWindowMessages(stream) == SelectSeq(stream, LAMBDA m : InWindow(m.date))

InFlight == {i \in DOMAIN task_state : task_state[i] = "running"}

GatherReturned == pc \in {"zip", "zip_photos", "done"} /\ results # <<>>

Requested(msg_id) ==
    \E t \in DOMAIN photo_download_tasks : photo_download_tasks[t].owner = msg_id

\* C1 (as claimed): once the batch has returned there is one outcome per
\* request; a request whose download raised has a failure recorded for it,
\* a request whose download wrote its file has that valid local path
\* recorded under its message id.
C1_EveryRequestAccounted ==
    GatherReturned =>
        /\ Len(results) = Len(photo_download_tasks)
        /\ \A i \in DOMAIN photo_download_tasks :
             /\ task_state[i] = "ok" =>
                  \E k \in DOMAIN downloaded_files_info.items :
                    /\ downloaded_files_info.items[k].msg_id = photo_download_tasks[i].owner
                    /\ Exists(files, downloaded_files_info.items[k].local_path)
             /\ task_state[i] = "fail" =>
                  \E k \in DOMAIN failed_downloads :
                    failed_downloads[k] = photo_download_tasks[i].path

\* C2 (as claimed): the downloads in flight never exceed the configured
\* maximum.
C2_InFlightBounded == Cardinality(InFlight) <= maxConcurrentDownloads

\* C2 (amended): the downloads in flight never exceed the number of
\* scheduled downloads, and nothing else limits them: while the batch is
\* awaited every scheduled download is in flight or finished, none waits
\* to start.
C2_AllScheduledStartTogether ==
    /\ Cardinality(InFlight) <= Len(photo_download_tasks)
    /\ pc = "gather" =>
         /\ Len(task_state) = Len(photo_download_tasks)
         /\ \A i \in DOMAIN task_state : task_state[i] \in {"running", "ok", "nofile", "fail"}

C2_Witness ==
    /\ pc = "gather"
    /\ Cardinality(InFlight) = Len(photo_download_tasks)
    /\ Cardinality(InFlight) > maxConcurrentDownloads

C4_EndIsNextStart ==
    pc # "start" => end_dt_utc = StartUtc(tz_name, target_day + 1)

\* C5 (as claimed): what the reader returns is exactly the yielded messages
\* that lie in [start_dt_utc, end_dt_utc).
C5_ResultIsWindow ==
    ReaderReturned => messages = InWindowMessages(yielded)

\* C5 (amended): the reader's list is exactly the yielded messages that lie
\* in [start_dt_utc, end_dt_utc), in order, while it reads and when the read
\* ends without an error; after an error or with an unauthorized session
\* it is empty.
C5_ResultIsWindowUnlessError ==
    messages = IF reader_exit \in {"none", "exhausted", "break"}
               THEN InWindowMessages(yielded)
               ELSE <<>>

\* a message at the start is kept, one at the end is left out
C5_Witness ==
    /\ reader_exit = "exhausted"
    /\ Len(yielded) = 2
    /\ yielded[1].date = start_dt_utc
    /\ yielded[2].date = end_dt_utc
    /\ Len(messages) = 1
    /\ messages[1] = yielded[1]

\* C6 (as claimed): a message at or after end_dt_utc is the last one the
\* reader takes from the stream, and the read is over once it is seen.
C6_StopsAtFirstPastEnd ==
    \A i \in DOMAIN yielded :
        yielded[i].date >= end_dt_utc => (i = Len(yielded) /\ pc # "reading")

\* C7 (as claimed): a read during which a rate limit was signalled ends as
\* a read without one does, with the in-window messages.
C7_RateLimitInvisible ==
    (ReaderReturned /\ flood_seconds > 0) =>
        /\ reader_exit \in {"exhausted", "break"}
        /\ messages = InWindowMessages(yielded)

\* C7 (amended): on a rate limit the reader sleeps the cool-down plus one
\* second and returns an empty list without resuming; the pipeline stops
\* with (None, []).
C7_FloodWaitReturnsEmpty ==
    reader_exit = "flood" =>
        /\ slept = flood_seconds + 1
        /\ messages = <<>>
        /\ pc \in {"fetched", "done"}
        /\ pc = "done" => ret = Return(NoneZip, <<>>)

C7_Witness ==
    /\ reader_exit = "flood"
    /\ InWindowMessages(yielded) # <<>>
    /\ pc = "done"

\* C8 (as claimed): after another transport error the reader returns the
\* in-window messages collected so far.
C8_ErrorKeepsCollected ==
    reader_exit \in {"error", "value"} => messages = InWindowMessages(yielded)

\* C8 (amended): after another transport error the reader returns an empty
\* list, whatever it had collected, and does not raise; the pipeline stops
\* with (None, []).
C8_ErrorReturnsEmpty ==
    reader_exit \in {"error", "value"} =>
        /\ messages = <<>>
        /\ pc \in {"fetched", "done"}
        /\ pc = "done" => ret = Return(NoneZip, <<>>)

C8_Witness ==
    /\ reader_exit = "error"
    /\ Len(InWindowMessages(yielded)) = 2
    /\ pc = "done"

\* C9: after an access error or with an unauthorized session the reader
\* returns an empty list, whatever it had collected, and the pipeline
\* returns (None, []) without downloading or archiving.
C9_AccessErrorReturnsNothing ==
    reader_exit \in {"access", "unauthorized"} =>
        /\ messages = <<>>
        /\ pc \in {"fetched", "done"}
        /\ pc = "done" => ret = Return(NoneZip, <<>>)
        /\ photo_download_tasks = <<>> /\ zip = NoZip

C9_Witness ==
    /\ reader_exit = "access"
    /\ InWindowMessages(yielded) # <<>>
    /\ pc = "done"
    /\ ret = Return(NoneZip, <<>>)

\* C10: for every message the loop has handled, a download is scheduled
\* iff the message has a photo and its tally is at least min_reactions.
C10_DownloadIffPhotoAndThreshold ==
    /\ \A i \in 1..idx :
         Requested(messages[i].id) <=>
           /\ messages[i].photo # 0
           /\ count_telethon_message_reactions(messages[i], like_emojis) >= min_reactions
    /\ \A t \in DOMAIN photo_download_tasks :
         \E i \in 1..idx : messages[i].id = photo_download_tasks[t].owner

\* a photo whose tally equals the minimum is scheduled, a message without a
\* photo and a higher tally is not
C10_Witness ==
    /\ idx = 2
    /\ min_reactions = 1
    /\ messages[1].photo # 0
    /\ count_telethon_message_reactions(messages[1], like_emojis) = min_reactions
    /\ Requested(messages[1].id)
    /\ messages[2].photo = 0
    /\ count_telethon_message_reactions(messages[2], like_emojis) > min_reactions
    /\ ~Requested(messages[2].id)

\* ------------------------------------------------------------------ C11
RECURSIVE TallyUpTo(_, _, _, _)
\* the counts of the first n entries, those of a symbol in `symbols` only
\* unless `all`
TallyUpTo(entries, n, symbols, all) ==
    IF n = 0 THEN 0
    ELSE TallyUpTo(entries, n - 1, symbols, all)
         + (IF all \/ entries[n].reaction \in symbols THEN entries[n].count ELSE 0)

AllowSet == {like_emojis[i] : i \in DOMAIN like_emojis}

\* C11: the tally recorded for a message is the sum of the counts of its
\* entries whose symbol is in the allow-list when one is configured, the
\* sum of all counts when none is; it is 0 when the message has no
\* reactions or none matches, and custom entries add nothing under an
\* allow-list.
C11_TallyIsAllowListSum ==
    \A i \in DOMAIN processed_data : \A k \in DOMAIN messages :
        messages[k].id = processed_data[i].message_id =>
            LET rs == messages[k].reactions
                tally == processed_data[i].reactions
                emoji == SelectSeq(rs, LAMBDA e : e.reaction # "custom")
            IN  /\ like_emojis # <<>> => tally = TallyUpTo(rs, Len(rs), AllowSet, FALSE)
                /\ like_emojis = <<>> => tally = TallyUpTo(rs, Len(rs), {}, TRUE)
                /\ rs = <<>> => tally = 0
                /\ (like_emojis # <<>> /\ \A n \in DOMAIN rs : rs[n].reaction \notin AllowSet)
                      => tally = 0
                /\ like_emojis # <<>>
                      => tally = TallyUpTo(emoji, Len(emoji), AllowSet, FALSE)

\* a message with a counted, an uncounted and a custom reaction was tallied
\* under an allow-list
C11_Witness ==
    /\ like_emojis = <<"like">>
    /\ \E i \in DOMAIN processed_data :
          /\ processed_data[i].reactions = MaxCount
          /\ \E k \in DOMAIN messages :
                /\ messages[k].id = processed_data[i].message_id
                /\ messages[k].reactions =
                      << [reaction |-> "like", count |-> MaxCount],
                         [reaction |-> "custom", count |-> 1] >>

\* ------------------------------------------------------------------ C12
RECURSIVE JsonLoads(_)
\* json.loads: the value a JSON document stands for (null is None, written
\* 0; an object is a dict, its last member of a key winning)
JsonLoads(j) ==
    CASE j.type = "number" -> j.v
      [] j.type = "string" -> j.v
      [] j.type = "null"   -> 0
      [] j.type = "array"  -> [i \in DOMAIN j.items |-> JsonLoads(j.items[i])]
      [] j.type = "object" ->
            [k \in {j.members[i].key : i \in DOMAIN j.members} |->
                LET last == CHOOSE i \in DOMAIN j.members :
                                /\ j.members[i].key = k
                                /\ \A n \in DOMAIN j.members : j.members[n].key = k => n <= i
                IN  JsonLoads(j.members[last].value)]

\* an archive file holding messages.json is on disk
ManifestWritten == zip.exists /\ zip.entries # <<>>

\* messages.json of the archive file, read back
ArchivedManifest == JsonLoads(zip.entries[1].content)

\* the fetched items that are messages proper (service items left aside)
FetchedMessages == SelectSeq(messages, LAMBDA m : m.kind = "Message")

\* C12: whenever a run fetched messages and wrote an archive, the manifest
\* in it holds exactly one record per fetched message, also when the
\* download phase failed.
C12_OneRecordPerFetchedMessage ==
    (messages # <<>> /\ ManifestWritten) =>
        /\ Len(ArchivedManifest) = Len(FetchedMessages)
        /\ \A i \in DOMAIN ArchivedManifest :
              ArchivedManifest[i].message_id = FetchedMessages[i].id

\* ------------------------------------------------------------------ C13
\* the download of the media of message msg_id succeeded in this run
DownloadedOk(msg_id) ==
    \E t \in DOMAIN task_state :
        photo_download_tasks[t].owner = msg_id /\ task_state[t] = "ok"

\* C13: in the manifest of a run whose download phase went through, a media
\* entry carries an archive path only if the media of its message was
\* downloaded successfully in this run.
C13_ArchivePathOnlyIfDownloaded ==
    (ManifestWritten /\ downloaded_files_info.defined) =>
        \A i \in DOMAIN ArchivedManifest :
            \A n \in DOMAIN ArchivedManifest[i].photos :
                ArchivedManifest[i].photos[n].zip_path # NoPath
                    => DownloadedOk(ArchivedManifest[i].message_id)

\* ------------------------------------------------------------------ C14
\* the run returned the path of the archive it wrote
ArchiveReturned == ret.returned /\ ret.zip_path # NoneZip

\* the files of the archive other than messages.json
ArchivedPhotos == {zip.entries[e] : e \in {x \in DOMAIN zip.entries : zip.entries[x].kind = "photo"}}

InArchive(zip_path) == \E e \in ArchivedPhotos : e.name = zip_path

\* C14: in every archive a run returns, messages.json read back equals the
\* manifest list of the run field for field; an archive path a record
\* names is a file of the archive exactly when the media of that message
\* was downloaded successfully; and the archive holds no media file other
\* than the successfully downloaded ones, each under photos/.
C14_ArchiveMatchesManifest ==
    ArchiveReturned =>
        LET manifest == ArchivedManifest
        IN  /\ manifest = processed_data
            /\ \A i \in DOMAIN manifest :
                  \A n \in DOMAIN manifest[i].photos :
                      InArchive(manifest[i].photos[n].zip_path)
                          <=> DownloadedOk(manifest[i].message_id)
            /\ \A e \in ArchivedPhotos :
                  /\ e.name.dir = "photos"
                  /\ \E t \in DOMAIN task_state :
                        /\ task_state[t] = "ok"
                        /\ e.name.name = photo_download_tasks[t].path.name
                        /\ e.content = [media |-> photo_download_tasks[t].media,
                                        owner |-> photo_download_tasks[t].owner]

\* a returned archive whose manifest names one photo that is in the archive
\* and one that is not
C14_Witness ==
    /\ ArchiveReturned
    /\ \E i, k \in DOMAIN ArchivedManifest :
          /\ ArchivedManifest[i].photos # <<>>
          /\ InArchive(ArchivedManifest[i].photos[1].zip_path)
          /\ ArchivedManifest[k].photos # <<>>
          /\ ~InArchive(ArchivedManifest[k].photos[1].zip_path)

\* ------------------------------------------------------------------ C15
\* C15: when the run has ended, either it returned the path of a complete,
\* closed archive, or it returned no archive path and no file (whole or
\* partial) was left at the target path.
C15_ArchiveAllOrNothing ==
    ret.returned =>
        \/ /\ ret.zip_path = ZipFilepath(target_day)
           /\ zip.exists /\ ~zip.open
           /\ Len(zip.entries) = 1 + Len(downloaded_files_info.items)
        \/ /\ ret.zip_path = NoneZip
           /\ ~zip.exists

\* ------------------------------------------------------------------ C16
\* the place of the message with this id in the reader's list
PositionOf(msg_id) == CHOOSE k \in DOMAIN messages : messages[k].id = msg_id

\* C16: the records of the manifest, in the run and in the archive, are in
\* the order of the reader's list, which is oldest first, whatever the
\* downloads do.
C16_ManifestInReaderOrder ==
    /\ \A i, j \in DOMAIN processed_data :
          i < j => /\ PositionOf(processed_data[i].message_id)
                        < PositionOf(processed_data[j].message_id)
                   /\ processed_data[i].timestamp.iso <= processed_data[j].timestamp.iso
    /\ ManifestWritten =>
          LET manifest == ArchivedManifest
          IN  \A i, j \in DOMAIN manifest :
                  i < j => /\ PositionOf(manifest[i].message_id)
                                < PositionOf(manifest[j].message_id)
                           /\ manifest[i].timestamp.iso <= manifest[j].timestamp.iso

\* two messages of different instants, both with a downloaded photo, are in
\* the manifest of a returned archive
C16_Witness ==
    /\ ArchiveReturned
    /\ Len(ArchivedManifest) = 2
    /\ ArchivedManifest[1].timestamp.iso < ArchivedManifest[2].timestamp.iso
    /\ \A i \in DOMAIN ArchivedManifest : DownloadedOk(ArchivedManifest[i].message_id)

\* ------------------------------------------------------------------ C17
\* the messages proper of the window, as the transport holds them
UpstreamMessages ==
    SelectSeq(yielded, LAMBDA m : InWindow(m.date) /\ m.kind = "Message")

\* the document fixed by the upstream messages, the day and the allow-list
ExpectedDocument ==
    JsonDumps([i \in DOMAIN UpstreamMessages |->
                  MessageInfo(UpstreamMessages[i], target_day, like_emojis)])

\* C17: messages.json of a returned archive is a function of the chat's
\* messages of the day, the day and the configuration only: two runs over
\* unchanged upstream data write the same document, whatever the order
\* the downloads complete in and whichever of them succeed.
C17_ManifestDeterminedByUpstream ==
    ArchiveReturned => zip.entries[1].content = ExpectedDocument

\* a returned archive of a run in which one download succeeded and another
\* failed
C17_Witness ==
    /\ ArchiveReturned
    /\ zip.entries[1].content = ExpectedDocument
    /\ \E t, u \in DOMAIN task_state : task_state[t] = "ok" /\ task_state[u] = "fail"

\* ------------------------------------------------------------------ C18
\* C18: the stages are separated by full barriers: a download has started
\* only when every fetched message has been scored and recorded; the
\* archive step runs only when no download is in flight; the document is
\* delivered only when the archive is completely written and closed.
C18_StagesAreBarriers ==
    /\ (task_state # <<>> \/ files # {}) =>
          /\ idx = Len(messages)
          /\ Len(processed_data) = Len(FetchedMessages)
    /\ (pc \in {"zip", "zip_photos"} \/ zip.exists) => InFlight = {}
    /\ sent_to_server # <<>> =>
          /\ pc = "done"
          /\ ArchiveReturned
          /\ zip.exists /\ ~zip.open
          /\ Len(zip.entries) = 1 + Len(downloaded_files_info.items)
          /\ sent_to_server = << zip.entries[1].content >>

\* a run that recorded two messages, downloaded a photo, archived it and
\* delivered the document
C18_Witness ==
    /\ chatid_result = "True"
    /\ sent_to_server # <<>>
    /\ Len(processed_data) = 2
    /\ \E t \in DOMAIN task_state : task_state[t] = "ok"
    /\ Len(zip.entries) >= 2

\* ------------------------------------------------------------------ C19
\* C19: once the archive step is reached, and when the run has ended, every
\* download created for a qualifying message has been started and has
\* returned, also when handling a later message raised.
C19_SubmittedDownloadsResolved ==
    pc \in {"zip", "zip_photos", "done"} =>
        /\ Len(task_state) = Len(photo_download_tasks)
        /\ \A t \in DOMAIN task_state : task_state[t] \in {"ok", "nofile", "fail"}

\* ------------------------------------------------------------------ C20
\* C20 (as claimed): a download that does not complete is ended by its own
\* timeout, so a batch that was started is always followed by the archive
\* step and the end of the run.
C20_BatchAlwaysCompletes == (pc = "gather") ~> (pc = "done")

\* C20 (amended): no download is ended by the pipeline: the batch is left
\* only when every download has returned, and once they all have, the
\* archive step and the end of the run follow.
C20_BatchWaitsForEveryDownload ==
    /\ [][(pc = "gather" /\ pc' # "gather") => InFlight = {}]_vars
    /\ [][\A t \in DOMAIN task_state :
            (task_state[t] = "running" /\ task_state'[t] # "running")
                => (pc = "gather" /\ pc' = "gather" /\ results' = results)]_vars
    /\ (pc = "gather" /\ InFlight = {}) ~> (pc = "done")

\* the batch is waiting on a download while another one has already failed
C20_Witness ==
    /\ pc = "gather"
    /\ \E t, u \in DOMAIN task_state : task_state[t] = "running" /\ task_state[u] = "fail"
    /\ zip = NoZip

\* ------------------------------------------------------------------ C21
\* the run ended at `if not messages`: nothing to archive
NothingToArchive == ret.returned /\ messages = <<>>

\* the download phase went through and the archive step returned None
ArchiveFailed ==
    /\ ret.returned /\ ret.zip_path = NoneZip
    /\ messages # <<>> /\ downloaded_files_info.defined

\* what `return None, []` at line 244 hands back
EmptyRunReturn == Return(NoneZip, <<>>)

\* C21 (as claimed): a failed archive step never yields the return value of
\* a run with nothing to archive, nor the report line of such a run.
C21_FailureDistinctFromEmpty ==
    ArchiveFailed =>
        /\ ret # EmptyRunReturn
        /\ chatid_result # "pending" => report_line # ReportLine(EmptyRunReturn.zip_path)

\* C21 (amended): both cases return None for the archive; a run with
\* nothing to archive returns an empty list and a failed archive step the
\* list of downloaded media, which may be empty too; the front end reports
\* every run without an archive with the same line and returns False.
C21_FailureAndEmptyReportedAlike ==
    /\ NothingToArchive => ret = EmptyRunReturn
    /\ ArchiveFailed => ret = Return(NoneZip, popular_photo_paths)
    /\ (chatid_result # "pending" /\ ret.zip_path = NoneZip) =>
          /\ report_line = "Archive creation failed or no messages processed"
          /\ chatid_result = "False"
          /\ sent_to_server = <<>>

\* a failed archive step whose return value and report are those of an
\* empty run
C21_Witness ==
    /\ ArchiveFailed
    /\ zip = NoZip
    /\ ret = EmptyRunReturn
    /\ chatid_result = "False"
    /\ report_line = "Archive creation failed or no messages processed"

\* ------------------------------------------------------------------ C22
\* the caller has handed messages.json to the delivery step and it is over
Delivered == chatid_result # "pending" /\ sent_to_server # <<>>

\* the server answered, with this status
Answered(statuses) == server.net = "ok" /\ server.status \in statuses

\* C22 (as claimed): every response whose status is not 2xx is a delivery
\* failure: no artifact is returned, nothing is persisted, and the archive
\* is as the pipeline left it.
C22_Non2xxIsFailure ==
    (Delivered /\ Answered(Statuses \ (200..299))) =>
        /\ picture_file = NoPicture
        /\ saved_images = {}
        /\ PipelineReturnedArchive

\* C22 (amended): a 4xx or 5xx response is a delivery failure, with no
\* artifact, nothing persisted and the archive untouched; a response of
\* any other class is processed like a 2xx one, and its image is saved.
C22_ClientAndServerErrorsAreFailures ==
    /\ (Delivered /\ Answered(400..599)) =>
          /\ picture_file = NoPicture
          /\ saved_images = {}
          /\ PipelineReturnedArchive
    /\ (Delivered /\ Answered(Statuses \ (400..599))
           /\ server.body = "image" /\ server.disk_ok) =>
          /\ picture_file = ImagePath(now_utc)
          /\ saved_images = {[path |-> ImagePath(now_utc), content |-> "image_data"]}
          /\ PipelineReturnedArchive

\* a 404 whose body holds an image was handled
C22_Witness ==
    /\ Delivered
    /\ Answered({404})
    /\ server.body = "image" /\ server.disk_ok
    /\ picture_file = NoPicture

\* ------------------------------------------------------------------ C23
\* the request failed on the network, or the body was not JSON, or the
\* payload could not be decoded
DeliveryBroke ==
    \/ server.net \in {"timeout", "refused", "invalid_url"}
    \/ /\ server.net = "ok"
       /\ server.status \in 200..299
       /\ server.body \in {"not_json", "undecodable"}

\* C23: a network failure, a non-JSON body and an undecodable payload are
\* all caught inside the delivery step: it returns no artifact and raises
\* nothing, and the archive remains and is still reported as created.
C23_DeliveryFailuresAreCaught ==
    (Delivered /\ DeliveryBroke) =>
        /\ picture_file = NoPicture
        /\ saved_images = {}
        /\ chatid_result = "True"
        /\ PipelineReturnedArchive
        /\ report_line = "Archive created"

\* a payload that is not base64 was received and handled
C23_Witness ==
    /\ Delivered
    /\ server.net = "ok" /\ server.status = 200 /\ server.body = "undecodable"
    /\ chatid_result = "True"

\* ------------------------------------------------------------------ C24
\* requests handed the response back and raise_for_status let it pass
RequestSucceeded == server.net = "ok" /\ server.status \notin 400..599

\* the body parsed as a JSON object that has the field image_base64
BodyHasPayloadField == server.body \in {"image", "undecodable"}

WarnedAboutZone ==
    \E i \in 1..Len(log_warnings) :
        log_warnings[i].level = "WARNING" /\ log_warnings[i].tz = tz_name

\* C25: for an unrecognized timezone name the interval resolver uses UTC
\* (the window is the UTC day), emits a warning-level diagnostic and goes
\* on to the fetch, for yesterday and for an explicit calendar day alike.
C25_UnknownZoneFallsBackWithWarning ==
    (pc # "start" /\ ~KnownZone(tz_name)) =>
        /\ pc = "fetch"
        /\ start_dt_utc = target_day * OneDay
        /\ end_dt_utc = (target_day + 1) * OneDay
        /\ WarnedAboutZone

\* ------------------------------------------------------------------ C26
\* the pipeline has touched nothing outside itself
NoIOPerformed ==
    /\ dirs = {}
    /\ yielded = <<>> /\ reader_exit = "none"
    /\ task_state = <<>> /\ files = {}
    /\ zip = NoZip
    /\ sent_to_server = <<>>

\* C26 (as claimed): a threshold that is not an integer, or is negative,
\* makes the pipeline fail before any I/O: no directory, no connection,
\* no download, no archive.
C26_MalformedThresholdFailsFast ==
    (pc # "config" /\ (~config_raw.is_int \/ config_raw.value < 0)) =>
        /\ pc = "raised"
        /\ NoIOPerformed

\* C26 (amended): a threshold that is not an integer makes the pipeline
\* fail before any I/O; a negative integer is accepted as the threshold,
\* the directories are made and the run goes on.
C26_NonIntegerThresholdFailsFast ==
    /\ (pc # "config" /\ ~config_raw.is_int) =>
          /\ pc = "raised"
          /\ NoIOPerformed
          /\ ret = NoReturn
          /\ chatid_result = "None"
    /\ (pc # "config" /\ config_raw.is_int) =>
          /\ pc # "raised"
          /\ min_reactions = config_raw.value
          /\ dirs = OutputDirs

\* the run with a text for a threshold has ended in the caller's handler
C26_Witness ==
    /\ pc = "raised"
    /\ config_raw = RawText
    /\ chatid_result = "None"

\* ------------------------------------------------------------------ C27
RECURSIVE WrittenPathsFrom(_)
\* the paths of the downloads from task i on that wrote their file, in
\* task order
WrittenPathsFrom(i) ==
    IF i > Len(task_state) THEN <<>>
    ELSE (IF task_state[i] = "ok" THEN <<photo_download_tasks[i].path>> ELSE <<>>)
         \o WrittenPathsFrom(i + 1)

\* C27: the second component of the returned tuple is exactly the list of
\* local paths of the media downloaded successfully in this run, one per
\* successful download and none for a failed one; when the archive step
\* fails the first component is None, the list is returned all the same,
\* and the downloaded files are still on disk.
C27_ReturnsSuccessfulMediaPaths ==
    ret.returned =>
        /\ ret.photos = WrittenPathsFrom(1)
        /\ \A i \in DOMAIN ret.photos : Exists(files, ret.photos[i])
        /\ (~zip.exists \/ Len(zip.entries) < 1 + Len(downloaded_files_info.items))
              => ret.zip_path = NoneZip

\* the archive step failed after one download succeeded and another did not
C27_Witness ==
    /\ ArchiveFailed
    /\ ret.photos # <<>>
    /\ \E i \in DOMAIN task_state : task_state[i] \in {"nofile", "fail"}
    /\ \A i \in DOMAIN ret.photos : Exists(files, ret.photos[i])

C29_OnlyAdminsPassTheGate ==
    \A g \in gate_log : g.invoked => g.user \in admin_id_set

\* ------------------------------------------------------------------ C30
\* the registry has an entry for the chat, under whatever key
InRegistry(chat) == \E k \in KNOWN_CHATS : k.id = chat

InFile(chat) == known_chats_file.exists /\ \E k \in known_chats_file.keys : k.id = chat

\* C30: after any sequence of membership updates, saves and restarts, a
\* chat whose membership was reported is in the registry iff the latest
\* status is member or administrator; a chat the bot left or was banned
\* from is neither in the registry nor in the file; and no chat is stored
\* under two keys.
C30_RegistryFollowsMembership ==
    \A chat \in Chats :
        /\ bot_status[chat] \in JoinedStatuses => InRegistry(chat)
        /\ bot_status[chat] \in GoneStatuses => ~InRegistry(chat) /\ ~InFile(chat)
        /\ \A k1, k2 \in KNOWN_CHATS : k1.id = chat /\ k2.id = chat => k1 = k2

\* ------------------------------------------------------------------ C31
\* C31: when the date argument of /process_history is not a valid
\* YYYY-MM-DD date, the handler reports the format error and does not
\* invoke the pipeline for that request.
C31_InvalidDateStopsTheRequest ==
    "Error: Invalid date format" \in replies =>
        /\ pipeline_calls = {}
        /\ pc = "idle"

\* ------------------------------------------------------------------ C32
\* C32: for every chat id list_groupchats lists, positive or negative, the
\* command written for it matches the dynamic-command pattern, the
\* identifier taken out of it reads back as that id, and the pipeline is
\* called for exactly a listed id and for nothing else.
C32_DynamicCommandRoundTrips ==
    /\ \A line \in listing.lines :
          LET match == MatchPattern(line.command)
          IN  /\ match.matched
              /\ IntOfChars(Replace(match.group1, MinusWord, << "-" >>))
                    = [raised |-> FALSE, value |-> line.chat_id]
    /\ \A call \in pipeline_calls :
          /\ call.chat.kind = "int"
          /\ call.date = NoOverride
          /\ \E line \in listing.lines : line.chat_id = call.chat.value
    /\ "Unknown command" \notin replies

\* the command listed for the chat -1001 was sent and the pipeline called
C32_Witness ==
    /\ listing.answered
    /\ \E line \in listing.lines : line.chat_id = -1001
    /\ pipeline_calls = {[chat |-> ChatInt(-1001), date |-> NoOverride]}
    /\ pc = "config"

\* ------------------------------------------------------------------ C33
\* the fetch is over and left the pipeline without a message: the window
\* was empty, the reader returned [] after an error, or the client failed
ZeroMessages == pc \notin {"start", "fetch", "reading"} /\ messages = <<>>

\* C33: when the reader returns zero messages the run is a no-op: no
\* download is issued, no archive file is created at the target path, no
\* delivery request is sent, and the pipeline returns (None, []).
C33_ZeroMessagesIsNoOp ==
    ZeroMessages =>
        /\ pc \in {"fetched", "done"}
        /\ photo_download_tasks = <<>> /\ task_state = <<>> /\ files = {}
        /\ zip = NoZip
        /\ sent_to_server = <<>>
        /\ pc = "done" => ret = Return(NoneZip, <<>>)
        /\ chatid_result \in {"pending", "False"}

\* the transport refused access after it had yielded a message, and the
\* run is over
C33_Witness ==
    /\ ZeroMessages
    /\ reader_exit = "access"
    /\ yielded # <<>>
    /\ ret = Return(NoneZip, <<>>)
    /\ chatid_result = "False"

\* ------------------------------------------------------------------ C34
\* C34: in the CLI over the known chats the runs are strictly sequential
\* (each run has returned before the next one starts), and the pause is
\* taken only between two chats, after a run that produced an archive:
\* never after the last known chat.
C34_SequentialRunsPauseBetweenChats ==
    \A i \in DOMAIN cli.trace :
        LET e == cli.trace[i]
        IN  /\ e.ev = "start" =>
                  \/ i = 1
                  \/ /\ cli.trace[i - 1].ev \in {"end", "pause"}
                     /\ cli.trace[i - 1].pos = e.pos - 1
            /\ e.ev = "end" =>
                  /\ cli.trace[i - 1].ev = "start"
                  /\ cli.trace[i - 1].pos = e.pos
            /\ e.ev = "pause" =>
                  /\ cli.trace[i - 1].ev = "end"
                  /\ cli.trace[i - 1].result = "True"
                  /\ e.pos < Len(cli.keys)

====
